---- MODULE Spec2Model ----
(***************************************************************************)
(* Model of music-playlist-online-sync: the durable store (event queue,   *)
(* playlist map, processing leases), the Collapser and the worker's        *)
(* per-(playlist, provider) reconciliation pass.                           *)
(***************************************************************************)
EXTENDS Integers, Sequences, FiniteSets, TLC

None == "none"

\* Tables are partial functions: a key is in the DOMAIN iff the row exists.
EmptyMap == [x \in {} |-> None]
Put(f, k, v) == [x \in (DOMAIN f) \cup {k} |-> IF x = k THEN v ELSE f[x]]
Del(f, k) == [x \in (DOMAIN f) \ {k} |-> f[x]]
Has(f, k) == k \in DOMAIN f

\* ------------------------------------------------------------------ bounds
MaxNow == 6
MaxBatchLen == 3
MaxWorkers == 3
MaxRemoteIds == 3
MaxRetriesOnError == 2
MaxBatchSize == 1
MaxUserDeletes == 1
MaxQueueLen == 1
MaxPasses == 1
MaxFaults == MaxRetriesOnError
TickSec == 300

\* ------------------------------------------------------------- value sets
Workers == 1..MaxWorkers            \* worker ids (Uuid::new_v4 per pass)
LockKeys == {"pl1"}
LockTtls == {1, 2}
Tracks == {"t1", "t2"}
TrackActions == {"add", "remove"}
OtherActions == {"create", "delete", "rename"}
Procs == {"p1", "p2"}               \* worker processes
Solo == {"p1"}                      \* the process of a single-worker deployment
ProviderOrder == <<"spotify", "tidal">>
KeyOld == "A/Old"
KeyNew == "A/New"
KeyParent == "A"

VARIABLES
    now,                \* wall clock in seconds (Utc::now().timestamp())
    processing_locks,   \* table processing_locks: playlist_name -> row
    event_queue,        \* table event_queue: a sequence, the id is the index
    playlist_map,       \* table playlist_map: <<provider, playlist_name>> -> remote_id
    track_cache,        \* table track_cache: <<provider, local_path>> -> [isrc, remote_uri]
    remote,             \* provider side: provider -> (remote_id -> [name, tracks])
    next_remote_id,     \* provider side: the next playlist id a provider hands out
    user_deletes,       \* how many playlists the user has deleted on a provider's site
    faults,             \* how many provider calls have failed for a transient reason
    local_m3u,          \* filesystem: playlist_name -> the track lines of its .m3u
    cfg,                \* Config and the credentials/catalogue of this run
    wk,                 \* process -> the locals of its run_worker_once call
    next_wid,           \* the next fresh worker id
    debounce_map,       \* watcher: the folders (by key) with an armed debounce timer
    spawned,            \* watcher: the enqueue threads spawned and not yet run
    lease,              \* lock harness: lease[w]: key -> expires_at granted to w
    last_lock_call,     \* lock harness: the most recent try_acquire/release call
    cin,                \* collapse harness: the input batch
    cset,               \* collapse harness: the remote track set before the batch
    cout,               \* collapse harness: << >> before the call, <<collapse_events(cin)>> after
    fncall,             \* function harness: << >>, or <<the arguments of a call and, once made, its result>>
    rs,                 \* resolver: task -> the locals of the resolution it is in
    resolved,           \* resolver: <<provider, local_path>> -> the URI of the first success
    credentials,        \* table credentials: provider -> [token_json, client_id, client_secret]
    clients,            \* provider -> the client_id/client_secret its provider object holds
    last_refresh,       \* << >>, or <<the row before and after the latest successful refresh>>
    token,              \* provider -> the StoredToken its provider object caches (absent: None)
    last_bearer,        \* << >>, or <<what the latest get_bearer found, did and returned>>
    ensure,             \* << >>, or one provider object: its token mutex, its cache and the tasks in ensure_token
    queue_deleted,      \* table event_queue: the ids of the rows a DELETE has removed
    tree,               \* watcher: the InMemoryTree, the ops of its latest callback, the disk of the latest reconcile
    earliest_due,       \* watcher: folder key -> the instant its debounce timer is due
    burst               \* watcher: folder key -> the history of the ops on it and of its timer

vars == <<now, processing_locks, event_queue, playlist_map, track_cache, remote,
          next_remote_id, user_deletes, faults, local_m3u, cfg, wk, next_wid,
          debounce_map, spawned, lease, last_lock_call, cin, cset, cout, fncall, rs, resolved,
          credentials, clients, last_refresh, token, last_bearer, ensure, queue_deleted, tree, earliest_due, burst>>

lockVars == <<lease, last_lock_call>>
collapseVars == <<cin, cset, cout, fncall>>
storeVars == <<event_queue, playlist_map, track_cache>>
providerVars == <<remote, next_remote_id, user_deletes, faults>>
resolverVars == <<rs, resolved>>
credVars == <<credentials, clients, last_refresh, token, last_bearer, ensure>>
timerVars == <<earliest_due, burst>>
sideVars == <<resolverVars, credVars, queue_deleted, tree, timerVars>>
workerVars == <<cfg, wk, next_wid, local_m3u, debounce_map, spawned, sideVars>>

\* ================================================================= Store
\* db.rs try_acquire_playlist_lock: `if e > now` -- the lock row is active.
LockActiveAlways(row, t) == FALSE

LockActive(row, t) == row.expires_at > t

\* Return value of try_acquire_playlist_lock.
TryAcquireResult(locks, k, t) ==
    IF Has(locks, k) /\ LockActive(locks[k], t) THEN FALSE ELSE TRUE

\* Table after try_acquire_playlist_lock (INSERT .. ON CONFLICT DO UPDATE).
TryAcquireTable(locks, k, w, ttl, t) ==
    IF TryAcquireResult(locks, k, t)
    THEN Put(locks, k, [worker_id |-> w, locked_at |-> t, expires_at |-> t + ttl])
    ELSE locks

\* The row of the key is deleted whoever holds it.
ReleaseTableAnyWorker(locks, k, w) == Del(locks, k)

\* Table after release_playlist_lock (DELETE .. WHERE playlist_name AND worker_id).
ReleaseTable(locks, k, w) ==
    IF Has(locks, k) /\ locks[k].worker_id = w
    THEN Del(locks, k)
    ELSE locks

LockInit ==
    /\ now = 0
    /\ processing_locks = EmptyMap
    /\ lease = [w \in Workers |-> EmptyMap]
    /\ last_lock_call = [op |-> "none"]

\* No resolution is under way outside a worker pass.
ResolverIdle ==
    /\ rs = [r \in {} |-> None]
    /\ resolved = EmptyMap

\* No provider object exists and nobody has logged in.
CredsIdle ==
    /\ credentials = EmptyMap
    /\ clients = EmptyMap
    /\ last_refresh = << >>
    /\ token = EmptyMap
    /\ last_bearer = << >>
    /\ ensure = << >>

\* No row of event_queue has been deleted.
QueueWhole == queue_deleted = {}
\* No watcher process has built a tree.
TreeIdle ==
    tree = [nodes |-> EmptyMap, whitelist |-> << >>, count |-> 0, nightly |-> 0,
            ops |-> << >>, enq |-> << >>, dropped |-> FALSE, disk |-> << >>]

\* The debounce timers are followed without their instants.
TimersIdle ==
    /\ earliest_due = EmptyMap
    /\ burst = EmptyMap

SideIdle == ResolverIdle /\ CredsIdle /\ QueueWhole /\ TreeIdle /\ TimersIdle

\* The worker and the providers are not running.
WorkerIdle ==
    /\ event_queue = << >>
    /\ playlist_map = EmptyMap
    /\ track_cache = EmptyMap
    /\ remote = [p \in {} |-> EmptyMap]
    /\ next_remote_id = 1
    /\ user_deletes = 0
    /\ faults = 0
    /\ local_m3u = EmptyMap
    /\ cfg = [providers |-> << >>]
    /\ wk = [p \in {} |-> None]
    /\ next_wid = 1
    /\ debounce_map = {}
    /\ spawned = {}

CollapseIdle ==
    /\ cin = << >>
    /\ cset = {}
    /\ cout = << >>
    /\ fncall = << >>

\* A caller invokes try_acquire_playlist_lock(k, w, ttl).
TryAcquire(w, k, ttl) ==
    /\ LET ok == TryAcquireResult(processing_locks, k, now) IN
       /\ processing_locks' = TryAcquireTable(processing_locks, k, w, ttl, now)
       /\ lease' = IF ok THEN [lease EXCEPT ![w] = Put(@, k, now + ttl)] ELSE lease
       /\ last_lock_call' = [op |-> "acquire", worker |-> w, key |-> k, ok |-> ok,
                             before |-> processing_locks, at |-> now]
    /\ UNCHANGED <<now, collapseVars, storeVars, providerVars, workerVars>>

\* A caller invokes release_playlist_lock(k, w).
Release(w, k) ==
    /\ processing_locks' = ReleaseTable(processing_locks, k, w)
    /\ lease' = [lease EXCEPT ![w] = Del(@, k)]
    /\ last_lock_call' = [op |-> "release", worker |-> w, key |-> k, ok |-> TRUE,
                          before |-> processing_locks, at |-> now, held |-> Has(lease[w], k)]
    /\ UNCHANGED <<now, collapseVars, storeVars, providerVars, workerVars>>

\* One second passes.
LockTick ==
    /\ now < MaxNow
    /\ now' = now + 1
    /\ UNCHANGED <<processing_locks, lockVars, collapseVars, storeVars, providerVars, workerVars>>

LockNext ==
    \/ \E w \in Workers, k \in LockKeys, ttl \in LockTtls : TryAcquire(w, k, ttl)
    \/ \E w \in Workers, k \in LockKeys : Release(w, k)
    \/ LockTick

InitLock == LockInit /\ CollapseIdle /\ WorkerIdle /\ SideIdle

SpecLock == InitLock /\ [][LockNext]_vars

\* The workers whose granted lease on k has not expired yet.
UnexpiredHolders(k) == {w \in Workers : Has(lease[w], k) /\ now < lease[w][k]}

\* C1: whatever the interleaving of try_acquire and release calls on a key,
\* at most one worker holds an unexpired lease on it, and a try_acquire by
\* another worker while the lease is unexpired returns false and leaves the
\* lease row as it was.
C1_LeaseExclusive ==
    /\ \A k \in LockKeys : Cardinality(UnexpiredHolders(k)) <= 1
    /\ (/\ last_lock_call.op = "acquire"
        /\ Has(last_lock_call.before, last_lock_call.key)
        /\ last_lock_call.at < last_lock_call.before[last_lock_call.key].expires_at
        /\ last_lock_call.before[last_lock_call.key].worker_id # last_lock_call.worker)
       => (/\ last_lock_call.ok = FALSE
           /\ processing_locks = last_lock_call.before)

\* A second worker has just been refused while the first one's lease is
\* unexpired, after the clock has moved.
C1_Witness ==
    /\ last_lock_call.op = "acquire"
    /\ last_lock_call.ok = FALSE
    /\ last_lock_call.at > 0
    /\ Has(last_lock_call.before, last_lock_call.key)
    /\ last_lock_call.before[last_lock_call.key].worker_id # last_lock_call.worker
    /\ UnexpiredHolders(last_lock_call.key) # {}

\* --- C24
\* C24: release_playlist_lock by a worker that is not the holder of the row
\* leaves the table as it was, also when the caller once held the lease and
\* another worker has taken it over after it expired; a release by the
\* holder removes the row, and a try_acquire that finds no row succeeds.
C24_ReleaseOnlyByHolder ==
    /\ (/\ last_lock_call.op = "release"
        /\ Has(last_lock_call.before, last_lock_call.key)
        /\ last_lock_call.before[last_lock_call.key].worker_id # last_lock_call.worker)
       => processing_locks = last_lock_call.before
    /\ (/\ last_lock_call.op = "release"
        /\ Has(last_lock_call.before, last_lock_call.key)
        /\ last_lock_call.before[last_lock_call.key].worker_id = last_lock_call.worker)
       => (/\ ~Has(processing_locks, last_lock_call.key)
           /\ TryAcquireResult(processing_locks, last_lock_call.key, now))
    /\ (/\ last_lock_call.op = "acquire"
        /\ ~Has(last_lock_call.before, last_lock_call.key))
       => (/\ last_lock_call.ok
           /\ processing_locks[last_lock_call.key].worker_id = last_lock_call.worker)

\* A worker whose lease expired and was taken over by another worker has
\* just called release while the new holder's lease is unexpired.
C24_Witness ==
    /\ last_lock_call.op = "release"
    /\ last_lock_call.held
    /\ Has(last_lock_call.before, last_lock_call.key)
    /\ last_lock_call.before[last_lock_call.key].worker_id # last_lock_call.worker
    /\ LockActive(last_lock_call.before[last_lock_call.key], now)
    /\ Has(processing_locks, last_lock_call.key)

\* ============================================================= Collapser
\* models.rs Event, reduced to the fields collapse_events reads.
TrackEvents == [action : TrackActions, track_path : Tracks \cup {None}]
OtherEvents == [action : OtherActions, track_path : {None}]
Events == TrackEvents \cup OtherEvents

RECURSIVE SeqsUpTo(_, _)
SeqsUpTo(S, n) ==
    IF n = 0 THEN {<< >>}
    ELSE LET shorter == SeqsUpTo(S, n - 1) IN
         shorter \cup {Append(s, e) : s \in {x \in shorter : Len(x) = n - 1}, e \in S}

\* One iteration of the `for ev in events` loop on track_state (a map
\* track_path -> Add | Remove, None standing for "no entry").
CollapseStepNoCancel(st, ev) ==
    IF ev.action \in TrackActions /\ ev.track_path # None
    THEN [st EXCEPT ![ev.track_path] = ev.action]
    ELSE st

CollapseStep(st, ev) ==
    IF ev.action = "add" /\ ev.track_path # None
    THEN IF st[ev.track_path] = "remove"
         THEN [st EXCEPT ![ev.track_path] = None]
         ELSE [st EXCEPT ![ev.track_path] = "add"]
    ELSE IF ev.action = "remove" /\ ev.track_path # None
    THEN IF st[ev.track_path] = "add"
         THEN [st EXCEPT ![ev.track_path] = None]
         ELSE [st EXCEPT ![ev.track_path] = "remove"]
    ELSE st

RECURSIVE TrackState(_)
TrackState(evs) ==
    IF evs = << >> THEN [t \in Tracks |-> None]
    ELSE CollapseStep(TrackState(SubSeq(evs, 1, Len(evs) - 1)), evs[Len(evs)])

IsOther(ev) == ev.action \in OtherActions

\* The create events are not kept.
OtherOpsNoCreate(evs) == SelectSeq(evs, LAMBDA ev : ev.action \in OtherActions \ {"create"})

\* other_ops: the create/delete/rename events, in their original order.
OtherOps(evs) == SelectSeq(evs, IsOther)

\* All orders in which `track_state.into_iter()` may yield the entries.
RECURSIVE Orderings(_)
Orderings(S) ==
    IF S = {} THEN {<< >>}
    ELSE UNION {{<<x>> \o rest : rest \in Orderings(S \ {x})} : x \in S}

\* The possible results of collapse_events: other_ops followed by one
\* synthetic event per track_state entry, in HashMap iteration order.
CollapseOutputs(evs) ==
    LET st == TrackState(evs)
        left == {t \in Tracks : st[t] # None}
    IN  {OtherOps(evs) \o [i \in 1..Len(o) |-> [action |-> st[o[i]], track_path |-> o[i]]]
            : o \in Orderings(left)}

\* The effect of an event list on a remote track set: Add inserts the
\* track, Remove deletes it, the other actions leave the tracks alone.
RECURSIVE ApplyEvents(_, _)
ApplyEvents(S, evs) ==
    IF evs = << >> THEN S
    ELSE LET ev == Head(evs)
             S1 == IF ev.track_path = None THEN S
                   ELSE IF ev.action = "add" THEN S \cup {ev.track_path}
                   ELSE IF ev.action = "remove" THEN S \ {ev.track_path}
                   ELSE S
         IN  ApplyEvents(S1, Tail(evs))

CollapseInit ==
    /\ cin \in SeqsUpTo(Events, MaxBatchLen)
    /\ cset \in SUBSET Tracks
    /\ cout = << >>
    /\ fncall = << >>

\* The worker calls collapse_events on the batch.
Collapse ==
    /\ cout = << >>
    /\ cout' \in {<<o>> : o \in CollapseOutputs(cin)}
    /\ UNCHANGED <<cin, cset, fncall, now, processing_locks, lockVars, storeVars, providerVars, workerVars>>

CollapseNext == Collapse

InitCollapse == CollapseInit /\ LockInit /\ WorkerIdle /\ SideIdle

SpecCollapse == InitCollapse /\ [][CollapseNext]_vars

\* C4: applying collapse_events(B) to a remote track set yields the same
\* final set as applying the events of B in order.
C4_CollapsePreservesFinalSet ==
    cout # << >> => ApplyEvents(cset, cout[1]) = ApplyEvents(cset, cin)

CountOn(evs, t, a) ==
    Cardinality({i \in 1..Len(evs) : evs[i].track_path = t /\ evs[i].action = a})

\* The events of the batch on track t are exactly one Add and one Remove.
PairOnly(evs, t) == CountOn(evs, t, "add") = 1 /\ CountOn(evs, t, "remove") = 1

\* C5: when the events on a track t are exactly one Add(t) and one
\* Remove(t), in either order, adjacent or not, collapse_events returns no
\* event whose track_path is t.
C5_PairCancelled ==
    cout # << >> =>
        \A t \in Tracks : PairOnly(cin, t) =>
            \A i \in 1..Len(cout[1]) : cout[1][i].track_path # t

\* A collapsed batch Remove(t), <event not on t>, Add(t).
C5_Witness ==
    /\ cout # << >>
    /\ Len(cin) = 3
    /\ \E t \in Tracks :
        /\ PairOnly(cin, t)
        /\ cin[1] = [action |-> "remove", track_path |-> t]
        /\ cin[2].track_path # t
        /\ cin[3] = [action |-> "add", track_path |-> t]

\* ================================================================ Worker
LeaseTtl == 600
FirstFreshId == Len(ProviderOrder) + 1
Keys == {KeyOld, KeyNew}
Keys3 == {KeyOld, KeyNew, KeyParent}
RenameEvents ==
    {[playlist_name |-> k, action |-> a, track_path |-> None, to |-> to, timestamp_ms |-> 0, is_synced |-> FALSE]
        : k \in Keys3, a \in {"create", "rename"}, to \in {"", KeyNew}}
UriOf == [t \in Tracks |-> IF t = "t1" THEN "u1" ELSE "u2"]
Uris == {UriOf[t] : t \in Tracks}
watcherVars == <<debounce_map, spawned>>
harnessVars == <<lease, last_lock_call, cin, cset, cout, fncall, sideVars>>
offstageVars == <<watcherVars, harnessVars>>
Min(a, b) == IF a < b THEN a ELSE b
Range(q) == {q[i] : i \in 1..Len(q)}

\* A row of event_queue as enqueue_event writes it.
QueueEvent(k, a, t, to, ts) ==
    [playlist_name |-> k, action |-> a, track_path |-> t, to |-> to,
     timestamp_ms |-> ts, is_synced |-> FALSE]

\* The rows of the table that are unsynced.
UnsyncedIds(q, gone) == {i \in 1..Len(q) : i \notin gone /\ ~q[i].is_synced}

\* SELECT ... WHERE is_synced = 0 ORDER BY timestamp ASC: every order of
\* the unsynced rows that ascends by timestamp; rows of equal timestamp
\* come in whatever order the query plan yields.
FetchUnsynced(q, gone) ==
    {o \in Orderings(UnsyncedIds(q, gone)) :
        \A i \in 1..(Len(o) - 1) : q[o[i]].timestamp_ms <= q[o[i + 1]].timestamp_ms}

\* The update without its WHERE id = ?1.
MarkEventsSyncedAll(q, ids) ==
    [i \in 1..Len(q) |-> [q[i] EXCEPT !.is_synced = TRUE]]

\* UPDATE event_queue SET is_synced = 1 WHERE id = ?1, for each id of ids
MarkEventsSynced(q, ids) ==
    [i \in 1..Len(q) |-> IF i \in ids THEN [q[i] EXCEPT !.is_synced = TRUE] ELSE q[i]]

\* migrate_playlist_map(provider, from, to): the row of (provider, from)
\* moves to (provider, to).
MigratePlaylistMap(m, prov, from, to) ==
    IF Has(m, <<prov, from>>)
    THEN Put(Del(m, <<prov, from>>), <<prov, to>>, m[<<prov, from>>])
    ELSE m

\* The display name under the default template "${relative_path}": the
\* online root (when set) followed by the logical key.
NoName == [root |-> "", key |-> ""]
ComputeRemotePlaylistName(c, prov, key) == [root |-> c.online_root_playlist, key |-> key]
NameIsKey(name, key) == name.root = "" /\ name.key = key

\* Cache lookup, then metadata search; a hit of the search is cached.
ResolveTrack(c, prov, t, cache) ==
    IF Has(cache, <<prov, t>>) /\ cache[<<prov, t>>].remote_uri # ""
    THEN [uri |-> <<cache[<<prov, t>>].remote_uri>>, cache |-> cache]
    ELSE IF t \in c.catalog
    THEN [uri |-> <<UriOf[t]>>,
          cache |-> Put(cache, <<prov, t>>, [isrc |-> "", remote_uri |-> UriOf[t]])]
    ELSE [uri |-> << >>, cache |-> cache]

\* desired_remote_uris_for_playlist: the lines of the .m3u resolved in
\* order, deduplicated preserving order.
RECURSIVE DesiredRemoteUris(_, _, _, _, _)
DesiredRemoteUris(c, prov, lines, cache, acc) ==
    IF lines = << >> THEN [uris |-> acc, cache |-> cache]
    ELSE LET r == ResolveTrack(c, prov, Head(lines), cache)
             acc1 == IF r.uri = << >> \/ r.uri[1] \in Range(acc) THEN acc ELSE acc \o r.uri
         IN  DesiredRemoteUris(c, prov, Tail(lines), r.cache, acc1)

\* The loop over track_ops: each resolved Add goes to add_uris, each
\* resolved Remove to remove_uris.
RECURSIVE ResolveTrackOps(_, _, _, _, _, _)
ResolveTrackOps(c, prov, ops, cache, adds, removes) ==
    IF ops = << >> THEN [add_uris |-> adds, remove_uris |-> removes, cache |-> cache]
    ELSE LET op == Head(ops)
             r == IF op.track_path = None THEN [uri |-> << >>, cache |-> cache]
                  ELSE ResolveTrack(c, prov, op.track_path, cache)
         IN  ResolveTrackOps(c, prov, Tail(ops), r.cache,
                 IF op.action = "add" THEN adds \o r.uri ELSE adds,
                 IF op.action = "remove" THEN removes \o r.uri ELSE removes)

\* --- provider side
PlaylistExists(prov, id) == Has(remote[prov], id)

\* The error a provider call returns: the text before the status, the
\* status and what the body says.
ErrorPrefix(prov, op) ==
    IF prov = "tidal"
    THEN (IF op = "rename" THEN "tidal rename failed"
          ELSE IF op = "add" THEN "tidal add tracks failed"
          ELSE "tidal remove tracks failed")
    ELSE (IF op = "rename" THEN "rename failed"
          ELSE IF op = "add" THEN "add tracks failed"
          ELSE "remove tracks failed")

ProviderError(prov, op, outcome) ==
    IF outcome = "rate_limited" THEN [text |-> "rate_limited", status |-> 429, body |-> ""]
    ELSE IF outcome = "missing"
    THEN [text |-> ErrorPrefix(prov, op), status |-> 404,
          body |-> IF prov = "tidal" THEN "Playlists with id" ELSE "Not found"]
    ELSE [text |-> ErrorPrefix(prov, op), status |-> 500, body |-> ""]

\* What a call on playlist id can answer.
Transient == {"rate_limited", "error"}
\* TIDAL's remove_tracks first looks the items up and is a no-op Ok when it
\* finds none, which is what happens on a playlist that is gone.
CallOutcomes(prov, id, op) ==
    (IF PlaylistExists(prov, id) \/ (prov = "tidal" /\ op = "remove") THEN {"ok"} ELSE {"missing"})
    \cup (IF faults >= MaxFaults THEN {}
         ELSE IF op \in {"add", "remove"} THEN {"rate_limited", "error"}
         ELSE {"error"})
Count(out) == IF out \in Transient THEN faults + 1 ELSE faults

\* s.contains("rate_limited")
IsRateLimited(err) == err.text = "rate_limited"

\* s.contains("tidal rename failed: 404 Not Found") && s.contains("Playlists with id")
RenameSeesMissing(err) ==
    err.text = "tidal rename failed" /\ err.status = 404 /\ err.body = "Playlists with id"

\* s.contains("tidal add tracks failed: 404 Not Found") && s.contains("Playlists with id")
ApplySeesMissing(err) ==
    err.text = "tidal add tracks failed" /\ err.status = 404 /\ err.body = "Playlists with id"

\* --- the locals of run_worker_once
IdleLocals ==
    [pc |-> "idle", passes |-> 0, wid |-> 0, events |-> << >>, todo |-> {}, key |-> None, pi |-> 1,
     rename |-> << >>, has_delete |-> FALSE, track_ops |-> << >>, original_ids |-> {},
     remote_id |-> 0, desired |-> << >>, name |-> NoName,
     add_uris |-> << >>, remove_uris |-> << >>, phase |-> "remove", pos |-> 1,
     attempt |-> 0, site |-> "",
     \* history of the current reconciliation, for the properties
     changed |-> FALSE, marked |-> FALSE, gave_up |-> {}, missing_ops |-> {}, recreated_ops |-> {},
     rename_log |-> << >>, stopped_at |-> "", calls |-> {}, rate_limits |-> 0,
     ensures |-> 0,          \* ensure_playlist calls made for the current chunk
     revalidated |-> << >>,  \* <<the invalid id and the id ensure_playlist returned for it>>
     targets |-> {},         \* ids that rename, list, add and remove calls were made on
     unrecreated |-> {},     \* this pass: events of a group whose invalid playlist was not recreated
     applied |-> << >>,      \* the add_tracks and remove_tracks calls made (a repeated call once)
     aborted |-> {},         \* the phases apply_in_batches left with an error
     skipped |-> {}]         \* this pass: events of a group that a provider iteration left by `continue`

ProvOf(w) == cfg.providers[w.pi]
GroupOf(w, k) == SelectSeq(w.events, LAMBDA i : event_queue[i].playlist_name = k)
\* The operation a recreation at the current site stands in for.
SiteOp(w) == IF w.site = "apply" THEN w.phase ELSE IF w.site = "validate" THEN "valid" ELSE "rename"

\* --- the steps of run_worker_once
\* Where the pass goes once the playlist id is known and validated.
AfterValidatePc(w) ==
    IF w.rename = << >> /\ ~NameIsKey(w.name, w.key) THEN "cfgrename"
    ELSE IF w.rename # << >> THEN "rename"
    ELSE "list"

\* The pass without the queue-length check.
FetchEventsNoBackpressure(p) ==
    /\ wk[p].pc \in {"idle", "stopped"}
    /\ wk[p].passes < MaxPasses
    /\ \E ids \in FetchUnsynced(event_queue, queue_deleted) :
       LET over == FALSE
       IN  IF ids = << >> \/ over \/ cfg.providers = << >>
           THEN /\ wk' = [wk EXCEPT ![p] = [IdleLocals EXCEPT
                        !.passes = wk[p].passes + 1,
                        !.stopped_at = IF ids = << >> THEN ""
                                       ELSE IF over THEN "backpressure" ELSE "no_provider"]]
                /\ UNCHANGED next_wid
           ELSE /\ wk' = [wk EXCEPT ![p] = [IdleLocals EXCEPT
                        !.passes = wk[p].passes + 1,
                        !.pc = "group", !.wid = next_wid, !.events = ids,
                        !.todo = {event_queue[i].playlist_name : i \in Range(ids)}]]
                /\ next_wid' = next_wid + 1
    /\ UNCHANGED <<now, processing_locks, storeVars, providerVars, cfg, local_m3u, offstageVars>>

\* The pass without the return on an empty provider list.
FetchEventsNoProviderCheck(p) ==
    /\ wk[p].pc \in {"idle", "stopped"}
    /\ wk[p].passes < MaxPasses
    /\ \E ids \in FetchUnsynced(event_queue, queue_deleted) :
       LET over == cfg.queue_threshold # << >> /\ Len(ids) > cfg.queue_threshold[1]
       IN  IF ids = << >> \/ over
           THEN /\ wk' = [wk EXCEPT ![p] = [IdleLocals EXCEPT
                        !.passes = wk[p].passes + 1,
                        !.stopped_at = IF ids = << >> THEN ""
                                       ELSE IF over THEN "backpressure" ELSE "no_provider"]]
                /\ UNCHANGED next_wid
           ELSE /\ wk' = [wk EXCEPT ![p] = [IdleLocals EXCEPT
                        !.passes = wk[p].passes + 1,
                        !.pc = "group", !.wid = next_wid, !.events = ids,
                        !.todo = {event_queue[i].playlist_name : i \in Range(ids)}]]
                /\ next_wid' = next_wid + 1
    /\ UNCHANGED <<now, processing_locks, storeVars, providerVars, cfg, local_m3u, offstageVars>>

\* The pass starts: migrations, fetch, backpressure, providers, grouping.
FetchEvents(p) ==
    /\ wk[p].pc \in {"idle", "stopped"}
    /\ wk[p].passes < MaxPasses
    /\ \E ids \in FetchUnsynced(event_queue, queue_deleted) :
       LET over == cfg.queue_threshold # << >> /\ Len(ids) > cfg.queue_threshold[1]
       IN  IF ids = << >> \/ over \/ cfg.providers = << >>
           THEN /\ wk' = [wk EXCEPT ![p] = [IdleLocals EXCEPT
                        !.passes = wk[p].passes + 1,
                        !.stopped_at = IF ids = << >> THEN ""
                                       ELSE IF over THEN "backpressure" ELSE "no_provider"]]
                /\ UNCHANGED next_wid
           ELSE /\ wk' = [wk EXCEPT ![p] = [IdleLocals EXCEPT
                        !.passes = wk[p].passes + 1,
                        !.pc = "group", !.wid = next_wid, !.events = ids,
                        !.todo = {event_queue[i].playlist_name : i \in Range(ids)}]]
                /\ next_wid' = next_wid + 1
    /\ UNCHANGED <<now, processing_locks, storeVars, providerVars, cfg, local_m3u, offstageVars>>

\* The (playlist, provider) pairs the loops may visit next.
NextTargets(w) ==
    IF w.key # None /\ w.pi <= Len(cfg.providers) THEN {w.key} ELSE w.todo

\* Top of the provider loop: try the lease, skip when refused; otherwise
\* collapse the group, classify it and read the playlist map.
Acquire(p) ==
    /\ wk[p].pc = "group"
    /\ \E k \in NextTargets(wk[p]) :
        LET w == wk[p]
            pi == IF k = w.key THEN w.pi ELSE 1
            prov == cfg.providers[pi]
            got == TryAcquireResult(processing_locks, k, now)
            evs == [i \in 1..Len(GroupOf(w, k)) |-> event_queue[GroupOf(w, k)[i]]]
        IN  /\ processing_locks' = TryAcquireTable(processing_locks, k, w.wid, LeaseTtl, now)
            /\ IF ~got
               THEN wk' = [wk EXCEPT ![p] = [w EXCEPT !.key = k, !.pi = pi + 1, !.todo = w.todo \ {k},
                                            !.skipped = @ \cup Range(GroupOf(w, k))]]
               ELSE \E collapsed \in CollapseOutputs(evs) :
                    LET renames == SelectSeq(collapsed, LAMBDA e : e.action = "rename")
                        dels == SelectSeq(collapsed, LAMBDA e : e.action = "delete")
                        tops == SelectSeq(collapsed, LAMBDA e : e.action \in TrackActions)
                    IN  wk' = [wk EXCEPT ![p] = [w EXCEPT
                            !.key = k, !.pi = pi, !.todo = w.todo \ {k},
                            !.rename = IF renames = << >> THEN << >> ELSE <<renames[Len(renames)].to>>,
                            !.has_delete = dels # << >>,
                            !.track_ops = [i \in 1..Len(tops) |-> [action |-> tops[i].action, track_path |-> tops[i].track_path]],
                            !.original_ids = Range(GroupOf(w, k)),
                            !.remote_id = IF Has(playlist_map, <<prov, k>>) THEN playlist_map[<<prov, k>>] ELSE 0,
                            !.desired = << >>, !.name = NoName,
                            !.add_uris = << >>, !.remove_uris = << >>,
                            !.phase = "remove", !.pos = 1, !.attempt = 0, !.site = "",
                            !.changed = FALSE, !.marked = FALSE, !.gave_up = {}, !.missing_ops = {},
                            !.recreated_ops = {}, !.rename_log = << >>, !.calls = {}, !.rate_limits = 0,
                            !.pc = IF dels # << >> THEN "delete" ELSE "desired"]]
    /\ UNCHANGED <<now, storeVars, providerVars, cfg, next_wid, local_m3u, offstageVars>>

\* Both loops are exhausted: run_worker_once returns Ok.
EndPass(p) ==
    /\ wk[p].pc = "group"
    /\ NextTargets(wk[p]) = {}
    /\ wk' = [wk EXCEPT ![p] = [IdleLocals EXCEPT !.passes = wk[p].passes]]
    /\ UNCHANGED <<now, processing_locks, storeVars, providerVars, cfg, next_wid, local_m3u, offstageVars>>

\* Delete path: one delete_playlist call of the retry loop (none when the
\* playlist is unmapped).
DeleteRemote(p) ==
    /\ wk[p].pc = "delete"
    /\ LET w == wk[p]
           prov == ProvOf(w)
       IN  IF w.remote_id = 0
           THEN /\ wk' = [wk EXCEPT ![p] = [w EXCEPT !.pc = "delmap"]]
                /\ UNCHANGED <<remote, faults>>
           ELSE \E out \in CallOutcomes(prov, w.remote_id, "delete") :
                LET w1 == [w EXCEPT !.attempt = w.attempt + 1, !.calls = @ \cup {"delete"},
                                    !.missing_ops = IF out = "missing" THEN @ \cup {"delete"} ELSE @]
                IN  IF out = "ok"
                    THEN /\ remote' = [remote EXCEPT ![prov] = Del(@, w.remote_id)]
                         /\ faults' = faults
                         /\ wk' = [wk EXCEPT ![p] = [w1 EXCEPT !.pc = "delmap", !.changed = TRUE]]
                    ELSE /\ UNCHANGED remote
                         /\ faults' = Count(out)
                         /\ wk' = [wk EXCEPT ![p] =
                                IF w1.attempt >= cfg.max_retries_on_error
                                THEN [w1 EXCEPT !.pc = "delmap", !.gave_up = @ \cup {"delete"}]
                                ELSE w1]
    /\ UNCHANGED <<now, processing_locks, storeVars, next_remote_id, user_deletes, cfg, next_wid, local_m3u, offstageVars>>

\* The delete path keeps the playlist_map row when delete_playlist gave up.
DeleteMapUnlessGaveUp(p) ==
    /\ wk[p].pc = "delmap"
    /\ playlist_map' = IF "delete" \in wk[p].gave_up THEN playlist_map
                       ELSE Del(playlist_map, <<ProvOf(wk[p]), wk[p].key>>)
    /\ wk' = [wk EXCEPT ![p] = [wk[p] EXCEPT !.pc = "mark"]]
    /\ UNCHANGED <<now, processing_locks, event_queue, track_cache, providerVars, cfg, next_wid, local_m3u, offstageVars>>

\* Delete path: the playlist_map row goes, whatever the provider answered.
DeleteMap(p) ==
    /\ wk[p].pc = "delmap"
    /\ playlist_map' = Del(playlist_map, <<ProvOf(wk[p]), wk[p].key>>)
    /\ wk' = [wk EXCEPT ![p] = [wk[p] EXCEPT !.pc = "mark"]]
    /\ UNCHANGED <<now, processing_locks, event_queue, track_cache, providerVars, cfg, next_wid, local_m3u, offstageVars>>

\* desired_remote_uris_for_playlist and compute_remote_playlist_name.
ComputeDesired(p) ==
    /\ wk[p].pc = "desired"
    /\ LET w == wk[p]
           prov == ProvOf(w)
           lines == IF Has(local_m3u, w.key) THEN local_m3u[w.key] ELSE << >>
           r == DesiredRemoteUris(cfg, prov, lines, track_cache, << >>)
       IN  /\ track_cache' = r.cache
           /\ wk' = [wk EXCEPT ![p] = [w EXCEPT
                    !.desired = IF r.uris = << >> THEN << >> ELSE <<r.uris>>,
                    !.name = ComputeRemotePlaylistName(cfg, prov, w.key),
                    !.pc = IF w.remote_id = 0 THEN "ensure" ELSE "validate"]]
    /\ UNCHANGED <<now, processing_locks, event_queue, playlist_map, providerVars, cfg, next_wid, local_m3u, offstageVars>>

\* The name ensure_playlist is called with at the current site.
EnsureName(w) ==
    IF w.site = "rename" THEN ComputeRemotePlaylistName(cfg, ProvOf(w), w.rename[1]) ELSE w.name

\* Where the pass goes after ensure_playlist answered at the current site.
AfterEnsureOk(w) ==
    IF w.site \in {"", "validate"} THEN AfterValidatePc(w)
    ELSE IF w.site = "apply" THEN "apply"
    ELSE "list"

\* apply_in_batches returned: removes are followed by adds, adds by the
\* marking of the events.
Normalize(w) ==
    IF w.pc # "apply" THEN w
    ELSE IF w.phase = "remove" /\ w.pos > Len(w.remove_uris)
    THEN (IF w.add_uris = << >> THEN [w EXCEPT !.pc = "mark"]
          ELSE [w EXCEPT !.phase = "add", !.pos = 1, !.attempt = 0, !.ensures = 0])
    ELSE IF w.phase = "add" /\ w.pos > Len(w.add_uris) THEN [w EXCEPT !.pc = "mark"]
    ELSE w

AbortPhase(w) ==
    Normalize(IF w.phase = "remove"
              THEN [w EXCEPT !.pos = Len(w.remove_uris) + 1, !.pc = "apply"]
              ELSE [w EXCEPT !.pos = Len(w.add_uris) + 1, !.pc = "apply"])

AfterEnsureErr(w) ==
    IF w.site \in {"", "validate"} THEN [w EXCEPT !.pc = "release"]
    ELSE IF w.site = "apply" THEN AbortPhase([w EXCEPT !.aborted = @ \cup {w.phase}])
    ELSE [w EXCEPT !.pc = "list", !.attempt = 0]

\* provider.ensure_playlist: for an unmapped playlist (site ""), after
\* playlist_is_valid said false, or after a recognised 404.
EnsurePlaylist(p) ==
    /\ wk[p].pc = "ensure"
    /\ LET w == wk[p]
           prov == ProvOf(w)
           nm == EnsureName(w)
       IN  \/ /\ next_remote_id < FirstFreshId + MaxRemoteIds
              /\ remote' = [remote EXCEPT ![prov] = Put(@, next_remote_id, [name |-> nm, tracks |-> {}])]
              /\ next_remote_id' = next_remote_id + 1
              /\ playlist_map' = Put(playlist_map, <<prov, w.key>>, next_remote_id)
              /\ wk' = [wk EXCEPT ![p] = [w EXCEPT
                        !.remote_id = next_remote_id, !.attempt = 0, !.rate_limits = 0, !.changed = TRUE,
                        !.calls = @ \cup {"ensure"},
                        !.ensures = IF w.site = "apply" THEN @ + 1 ELSE @,
                        !.revalidated = IF w.site = "validate"
                                        THEN <<[old |-> w.remote_id, new |-> next_remote_id]>> ELSE @,
                        !.recreated_ops = IF w.site = "" THEN @ ELSE @ \cup {SiteOp(w)},
                        !.pc = AfterEnsureOk(w)]]
              /\ UNCHANGED faults
           \/ /\ faults < MaxFaults
              /\ faults' = faults + 1
              /\ wk' = [wk EXCEPT ![p] = AfterEnsureErr([w EXCEPT !.calls = @ \cup {"ensure"},
                                        !.ensures = IF w.site = "apply" THEN @ + 1 ELSE @,
                                        !.unrecreated = IF w.site = "validate"
                                                        THEN @ \cup w.original_ids ELSE @,
                                        !.skipped = IF w.site \in {"", "validate"}
                                                    THEN @ \cup w.original_ids ELSE @])]
              /\ UNCHANGED <<remote, next_remote_id, playlist_map>>
    /\ UNCHANGED <<now, processing_locks, event_queue, track_cache, user_deletes, cfg, next_wid, local_m3u, offstageVars>>

\* provider.playlist_is_valid: Spotify answers false for a playlist that is
\* gone (or fails, and the id is kept); the default implementation says true.
Validate(p) ==
    /\ wk[p].pc = "validate"
    /\ LET w == wk[p]
           prov == ProvOf(w)
       IN  \/ /\ prov = "spotify"
              /\ ~PlaylistExists(prov, w.remote_id)
              /\ wk' = [wk EXCEPT ![p] = [w EXCEPT !.pc = "ensure", !.site = "validate",
                            !.calls = @ \cup {"valid"}, !.missing_ops = @ \cup {"valid"}]]
              /\ UNCHANGED faults
           \/ /\ (prov = "spotify" /\ ~PlaylistExists(prov, w.remote_id)) => faults < MaxFaults
              /\ faults' = IF prov = "spotify" /\ ~PlaylistExists(prov, w.remote_id) THEN faults + 1 ELSE faults
              /\ wk' = [wk EXCEPT ![p] = [w EXCEPT !.pc = AfterValidatePc(w), !.calls = @ \cup {"valid"}]]
    /\ UNCHANGED <<now, processing_locks, storeVars, remote, next_remote_id, user_deletes, cfg, next_wid, local_m3u, offstageVars>>

\* One rename_playlist call of a rename loop: the config-driven one
\* (site "cfgrename", target the computed name of the key) or the explicit
\* one (site "rename", target the computed name of `to`).
RenameCall(p, site) ==
    /\ wk[p].pc = site
    /\ LET w == wk[p]
           prov == ProvOf(w)
           nm == IF site = "rename" THEN ComputeRemotePlaylistName(cfg, prov, w.rename[1]) ELSE w.name
       IN  \E out \in CallOutcomes(prov, w.remote_id, "rename") :
           LET w1 == [w EXCEPT !.attempt = w.attempt + 1, !.calls = @ \cup {"rename"},
                               !.targets = @ \cup {w.remote_id},
                               !.rename_log = Append(@, [name |-> nm, id |-> w.remote_id, res |-> out]),
                               !.missing_ops = IF out = "missing" THEN @ \cup {"rename"} ELSE @]
               err == ProviderError(prov, "rename", out)
           IN  /\ faults' = Count(out)
               /\ IF out = "ok"
                  THEN /\ remote' = [remote EXCEPT ![prov][w.remote_id].name = nm]
                       /\ playlist_map' = IF site = "rename"
                                          THEN MigratePlaylistMap(playlist_map, prov, w.key, w.rename[1])
                                          ELSE playlist_map
                       /\ wk' = [wk EXCEPT ![p] = [w1 EXCEPT !.pc = "list", !.attempt = 0, !.changed = TRUE]]
                  ELSE /\ UNCHANGED <<remote, playlist_map>>
                       /\ wk' = [wk EXCEPT ![p] =
                               IF RenameSeesMissing(err)
                               THEN [w1 EXCEPT !.pc = "ensure", !.site = site]
                               ELSE IF w1.attempt >= cfg.max_retries_on_error
                               THEN [w1 EXCEPT !.pc = "list", !.attempt = 0, !.gave_up = @ \cup {"rename"}]
                               ELSE w1]
    /\ UNCHANGED <<now, processing_locks, event_queue, track_cache, next_remote_id, user_deletes, cfg, next_wid, local_m3u, offstageVars>>

ConfigRename(p) == RenameCall(p, "cfgrename")

ExplicitRename(p) == RenameCall(p, "rename")

\* list_playlist_tracks answers for a playlist that exists; for one that is
\* gone Spotify fails and TIDAL's 404 is read as an empty playlist.
ListAnswers(prov, id) == PlaylistExists(prov, id) \/ prov = "tidal"

\* The id part of a TIDAL track URI "tidal:track:{id}".
TidalTrackId == [u \in Uris |-> IF u = "u1" THEN "id1" ELSE "id2"]

\* What list_playlist_tracks returns for a playlist holding tracks: Spotify
\* the URI of each item, TIDAL the bare track id of each item.
ListPlaylistTracks(prov, tracks) ==
    IF prov = "tidal" THEN {TidalTrackId[u] : u \in tracks} ELSE tracks

\* The track a provider takes a reference for: add_tracks and remove_tracks
\* of TIDAL keep what follows the last ":" (u.rsplit(':').next()), so a
\* URI and a bare id name the same track.
TrackOfRef(x) == IF x \in Uris THEN x ELSE CHOOSE u \in Uris : TidalTrackId[u] = x

\* list_playlist_tracks and the diff against desired (when there is one),
\* then the resolution of the track operations of the batch.
BuildLists(p) ==
    /\ wk[p].pc = "list"
    /\ LET w == wk[p]
           prov == ProvOf(w)
           listed == w.desired # << >> /\ ListAnswers(prov, w.remote_id)
           desired_set == IF w.desired = << >> THEN {} ELSE Range(w.desired[1])
           remote_set == IF listed /\ PlaylistExists(prov, w.remote_id)
                         THEN ListPlaylistTracks(prov, remote[prov][w.remote_id].tracks) ELSE {}
       IN  \E ok \in (IF listed THEN {TRUE} \cup (IF faults < MaxFaults THEN {FALSE} ELSE {}) ELSE {FALSE}) :
           \E to_add \in Orderings(IF ok THEN desired_set \ remote_set ELSE {}) :
           \E to_remove \in Orderings(IF ok THEN remote_set \ desired_set ELSE {}) :
           LET r == ResolveTrackOps(cfg, prov, w.track_ops, track_cache, to_add, to_remove)
           IN  /\ track_cache' = r.cache
               /\ faults' = IF listed /\ ~ok THEN faults + 1 ELSE faults
               /\ wk' = [wk EXCEPT ![p] = Normalize([w EXCEPT
                        !.add_uris = r.add_uris, !.remove_uris = r.remove_uris,
                        !.calls = IF w.desired # << >> THEN @ \cup {"list"} ELSE @,
                        !.targets = IF w.desired # << >> THEN @ \cup {w.remote_id} ELSE @,
                        !.pc = "apply", !.phase = "remove", !.pos = 1, !.attempt = 0])]
    /\ UNCHANGED <<now, processing_locks, event_queue, playlist_map, remote, next_remote_id, user_deletes, cfg, next_wid, local_m3u, offstageVars>>

\* The whole rest of the list goes into one call.
ChunkRest(w) ==
    LET list == IF w.phase = "remove" THEN w.remove_uris ELSE w.add_uris
    IN  SubSeq(list, w.pos, Len(list))

\* The current chunk of apply_in_batches.
Chunk(w) ==
    LET list == IF w.phase = "remove" THEN w.remove_uris ELSE w.add_uris
    IN  SubSeq(list, w.pos, Min(w.pos + cfg.max_batch_size_spotify - 1, Len(list)))

\* The chunk is done with (applied or abandoned): on to the next one.
NextChunk(w) ==
    Normalize([w EXCEPT !.pos = w.pos + cfg.max_batch_size_spotify, !.attempt = 0, !.rate_limits = 0,
                        !.ensures = 0])

\* The log of calls: a call that repeats the one before it, on the same
\* chunk with the same URIs, is not written again.
Logged(log, call) == IF log # << >> /\ log[Len(log)] = call THEN log ELSE Append(log, call)

\* One add_tracks / remove_tracks call of apply_in_batches and the
\* handling of its answer.
ApplyCall(p) ==
    /\ wk[p].pc = "apply"
    /\ LET w == wk[p]
           prov == ProvOf(w)
           op == w.phase
       IN  \E out \in CallOutcomes(prov, w.remote_id, op) :
           LET w1 == [w EXCEPT !.attempt = w.attempt + 1, !.calls = @ \cup {op},
                               !.targets = @ \cup {w.remote_id},
                               !.applied = Logged(@, [op |-> op, pos |-> w.pos, uris |-> Chunk(w)]),
                               !.rate_limits = IF out = "rate_limited" THEN @ + 1 ELSE @,
                               !.missing_ops = IF out = "missing" THEN @ \cup {op} ELSE @]
               err == ProviderError(prov, op, out)
           IN  /\ faults' = Count(out)
               /\ IF out = "ok"
                  THEN /\ remote' = IF PlaylistExists(prov, w.remote_id)
                                     THEN [remote EXCEPT ![prov][w.remote_id].tracks =
                                            IF op = "add" THEN @ \cup {TrackOfRef(x) : x \in Range(Chunk(w))}
                                            ELSE @ \ {TrackOfRef(x) : x \in Range(Chunk(w))}]
                                     ELSE remote
                       /\ wk' = [wk EXCEPT ![p] = NextChunk([w1 EXCEPT !.changed = TRUE])]
                  ELSE /\ UNCHANGED remote
                       /\ wk' = [wk EXCEPT ![p] =
                               IF IsRateLimited(err)
                               THEN (IF w1.attempt >= cfg.max_retries_on_error
                                     THEN NextChunk([w1 EXCEPT !.gave_up = @ \cup {"rate_limited"}])
                                     ELSE w1)
                               ELSE IF ApplySeesMissing(err)
                               THEN [w1 EXCEPT !.pc = "ensure", !.site = "apply"]
                               ELSE IF w1.attempt >= cfg.max_retries_on_error
                               THEN NextChunk([w1 EXCEPT !.gave_up = @ \cup {"error"}])
                               ELSE w1]
    /\ UNCHANGED <<now, processing_locks, storeVars, next_remote_id, user_deletes, cfg, next_wid, local_m3u, offstageVars>>

\* mark_events_synced(original_ids)
MarkSynced(p) ==
    /\ wk[p].pc = "mark"
    /\ event_queue' = MarkEventsSynced(event_queue, wk[p].original_ids)
    /\ wk' = [wk EXCEPT ![p] = [wk[p] EXCEPT !.pc = "release", !.marked = TRUE]]
    /\ UNCHANGED <<now, processing_locks, playlist_map, track_cache, providerVars, cfg, next_wid, local_m3u, offstageVars>>

\* release_playlist_lock, then the next provider.
ReleaseLock(p) ==
    /\ wk[p].pc = "release"
    /\ processing_locks' = ReleaseTable(processing_locks, wk[p].key, wk[p].wid)
    /\ wk' = [wk EXCEPT ![p] = [IdleLocals EXCEPT
            !.pc = "group", !.passes = wk[p].passes, !.wid = wk[p].wid,
            !.events = wk[p].events, !.todo = wk[p].todo, !.key = wk[p].key,
            !.pi = wk[p].pi + 1, !.unrecreated = wk[p].unrecreated,
            !.skipped = wk[p].skipped]]
    /\ UNCHANGED <<now, storeVars, providerVars, cfg, next_wid, local_m3u, offstageVars>>

\* The worker process stops (killed, power loss) wherever it is.
Crash(p) ==
    /\ wk[p].pc \notin {"idle", "stopped"}
    /\ wk' = [wk EXCEPT ![p] = [IdleLocals EXCEPT
            !.pc = "stopped", !.stopped_at = wk[p].pc, !.wid = wk[p].wid, !.passes = wk[p].passes,
            !.key = wk[p].key, !.pi = wk[p].pi, !.original_ids = wk[p].original_ids,
            !.changed = wk[p].changed]]
    /\ UNCHANGED <<now, processing_locks, storeVars, providerVars, cfg, next_wid, local_m3u, offstageVars>>

\* A playlist is deleted on the provider's site, at most max times.
DeleteOnSite(max) ==
    /\ user_deletes < max
    /\ \E prov \in DOMAIN remote : \E id \in DOMAIN remote[prov] :
        remote' = [remote EXCEPT ![prov] = Del(@, id)]
    /\ user_deletes' = user_deletes + 1
    /\ UNCHANGED <<now, processing_locks, storeVars, next_remote_id, faults, cfg, wk, next_wid, local_m3u, offstageVars>>

\* The user deletes a playlist on the provider's site.
UserDeletesRemote == DeleteOnSite(MaxUserDeletes)

\* The watcher is not running.
WatcherIdle == debounce_map = {} /\ spawned = {}

\* The lock harness is not running.
LockHarnessIdle == lease = [w \in Workers |-> EmptyMap] /\ last_lock_call = [op |-> "none"]

\* --- one worker process, one playlist, every provider set
InitEvents ==
    {QueueEvent(KeyOld, "add", "t1", "", 0), QueueEvent(KeyOld, "remove", "t2", "", 0),
     QueueEvent(KeyOld, "create", None, "", 0), QueueEvent(KeyOld, "delete", None, "", 0),
     QueueEvent(KeyOld, "rename", None, KeyNew, 0)}

\* The rows were enqueued one after the other, a millisecond apart.
Stamp(q) == [i \in 1..Len(q) |-> [q[i] EXCEPT !.timestamp_ms = i]]

ProviderId(prov) == CHOOSE i \in 1..Len(ProviderOrder) : ProviderOrder[i] = prov

Init ==
    /\ now = 0
    /\ processing_locks = EmptyMap
    /\ track_cache = EmptyMap
    /\ user_deletes = 0
    /\ faults = 0
    /\ next_remote_id = FirstFreshId
    /\ next_wid = 1
    /\ wk = [p \in Procs |-> IdleLocals]
    /\ cfg \in [providers : {<<"spotify">>, <<"tidal">>, <<"spotify", "tidal">>},
                online_root_playlist : {"", "Root"},
                catalog : {Tracks},
                max_retries_on_error : {MaxRetriesOnError},
                max_batch_size_spotify : {MaxBatchSize},
                queue_threshold : {<< >>}]
    \* a root playlist is configured in the setups with one provider
    /\ Len(cfg.providers) > 1 => cfg.online_root_playlist = ""
    /\ event_queue \in {Stamp(q) : q \in SeqsUpTo(InitEvents, MaxQueueLen) \ {<< >>}}
    /\ local_m3u \in {(KeyOld :> lines) : lines \in {<< >>, <<"t1", "t2">>}}
    /\ \E mapped \in BOOLEAN : \E tracks \in (IF mapped THEN {{}, {"u2"}} ELSE {{}}) :
        /\ remote = [prov \in Range(cfg.providers) |->
                        IF mapped
                        THEN (ProviderId(prov) :> [name |-> [root |-> "", key |-> KeyOld], tracks |-> tracks])
                        ELSE EmptyMap]
        /\ playlist_map = [k \in (IF mapped THEN {<<prov, KeyOld>> : prov \in Range(cfg.providers)} ELSE {})
                            |-> ProviderId(k[1])]
    /\ WatcherIdle
    /\ LockHarnessIdle
    /\ CollapseIdle
    /\ SideIdle

Next ==
    \/ \E p \in Solo : FetchEvents(p)
    \/ \E p \in Solo : Acquire(p)
    \/ \E p \in Solo : EndPass(p)
    \/ \E p \in Solo : DeleteRemote(p)
    \/ \E p \in Solo : DeleteMap(p)
    \/ \E p \in Solo : ComputeDesired(p)
    \/ \E p \in Solo : EnsurePlaylist(p)
    \/ \E p \in Solo : Validate(p)
    \/ \E p \in Solo : ConfigRename(p)
    \/ \E p \in Solo : ExplicitRename(p)
    \/ \E p \in Solo : BuildLists(p)
    \/ \E p \in Solo : ApplyCall(p)
    \/ \E p \in Solo : MarkSynced(p)
    \/ \E p \in Solo : ReleaseLock(p)
    \/ \E p \in Solo : Crash(p)
    \/ UserDeletesRemote

Spec == Init /\ [][Next]_vars

\* ------------------------------------------------ properties of one pass
Synced(ids) == \A i \in ids : event_queue[i].is_synced
Unsynced(ids) == \A i \in ids : ~event_queue[i].is_synced

\* The set of URIs the local playlist of key k resolves to on prov.
DesiredSet(prov, k) ==
    Range(DesiredRemoteUris(cfg, prov, IF Has(local_m3u, k) THEN local_m3u[k] ELSE << >>,
                            track_cache, << >>).uris)

\* C3: after a reconciliation without Delete that ends with the events
\* marked synced, the remote playlist holds exactly the URIs the local
\* playlist resolves to, whatever the remote held before, whatever Add and
\* Remove events the batch holds and also when the local playlist resolves
\* to no track.
C3_RemoteEqualsLocal ==
    \A p \in Procs :
        (wk[p].marked /\ ~wk[p].has_delete) =>
            /\ PlaylistExists(ProvOf(wk[p]), wk[p].remote_id)
            /\ remote[ProvOf(wk[p])][wk[p].remote_id].tracks = DesiredSet(ProvOf(wk[p]), wk[p].key)

\* C6: when a batch has failed with a non-rate-limit error until the retry
\* budget was exhausted, the pass does not mark the events synced.
C6_GivenUpBatchNotSynced ==
    \A p \in Procs : "error" \in wk[p].gave_up => ~wk[p].marked

\* C7: when the worker stops with changes partially applied on a provider,
\* the events of the playlist are still unsynced.
C7_StopLeavesEventsUnsynced ==
    \A p \in Procs :
        (wk[p].pc = "stopped" /\ wk[p].stopped_at = "apply" /\ wk[p].changed) =>
            Unsynced(wk[p].original_ids)

\* C8: when a provider reports the playlist missing during an add, a remove
\* or a rename, the same pass calls ensure_playlist and stores the new id;
\* for every provider and each of the three operations.
C8_MissingPlaylistRecreated ==
    \A p \in Procs :
        (wk[p].pc = "mark" /\ faults = 0) =>
            (wk[p].missing_ops \cap {"add", "remove", "rename"}) \subseteq wk[p].recreated_ops

\* C9: after a reconciliation of Rename{from, to} whose rename_playlist call
\* succeeded, the playlist map holds the renamed id under (provider, to) and
\* nothing under (provider, from), and rename_playlist was called exactly
\* once, with the name computed for `to`.
C9_RenameMovesMapping ==
    \A p \in Procs :
        (/\ wk[p].marked
         /\ wk[p].rename # << >>
         /\ wk[p].rename_log # << >>
         /\ wk[p].rename_log[1].res = "ok") =>
            /\ Has(playlist_map, <<ProvOf(wk[p]), wk[p].rename[1]>>)
            /\ playlist_map[<<ProvOf(wk[p]), wk[p].rename[1]>>] = wk[p].rename_log[1].id
            /\ ~Has(playlist_map, <<ProvOf(wk[p]), wk[p].key>>)
            /\ Len(wk[p].rename_log) = 1
            /\ wk[p].rename_log[1].name = ComputeRemotePlaylistName(cfg, ProvOf(wk[p]), wk[p].rename[1])

\* =================================================== Two worker processes
\* Time passes while a worker is in a provider call, a backoff sleep or a
\* rate-limit sleep.
LeaseTick ==
    /\ now < MaxNow * TickSec
    /\ \E p \in Procs : wk[p].pc \notin {"idle", "stopped"}
    /\ now' = now + TickSec
    /\ UNCHANGED <<processing_locks, storeVars, providerVars, workerVars, harnessVars>>

\* Two workers (the timer-driven service and a manual run) over one mapped
\* playlist with one pending event.
InitLease ==
    /\ now = 0
    /\ processing_locks = EmptyMap
    /\ track_cache = EmptyMap
    /\ user_deletes = 0
    /\ faults = 0
    /\ next_remote_id = FirstFreshId
    /\ next_wid = 1
    /\ wk = [p \in Procs |-> IdleLocals]
    /\ cfg \in [providers : {<<"spotify">>, <<"spotify", "tidal">>},
                online_root_playlist : {""},
                catalog : {Tracks},
                max_retries_on_error : {MaxRetriesOnError},
                max_batch_size_spotify : {MaxBatchSize},
                queue_threshold : {<< >>}]
    /\ event_queue \in {<<e>> : e \in {QueueEvent(KeyOld, "add", "t1", "", 0),
                                       QueueEvent(KeyOld, "create", None, "", 0)}}
    /\ local_m3u = (KeyOld :> <<"t1">>)
    /\ remote = [prov \in Range(cfg.providers) |->
                    (ProviderId(prov) :> [name |-> [root |-> "", key |-> KeyOld], tracks |-> {}])]
    /\ playlist_map = [k \in {<<prov, KeyOld>> : prov \in Range(cfg.providers)} |-> ProviderId(k[1])]
    /\ WatcherIdle
    /\ LockHarnessIdle
    /\ CollapseIdle
    /\ SideIdle

NextLease ==
    \/ \E p \in Procs : FetchEvents(p)
    \/ \E p \in Procs : Acquire(p)
    \/ \E p \in Procs : EndPass(p)
    \/ \E p \in Procs : ComputeDesired(p)
    \/ \E p \in Procs : Validate(p)
    \/ \E p \in Procs : BuildLists(p)
    \/ \E p \in Procs : ApplyCall(p)
    \/ \E p \in Procs : MarkSynced(p)
    \/ \E p \in Procs : ReleaseLock(p)
    \/ LeaseTick

SpecLease == InitLease /\ [][NextLease]_vars

\* The worker is between a successful lease acquisition and the release.
InReconcile(p) ==
    wk[p].pc \in {"delete", "delmap", "desired", "ensure", "validate", "cfgrename",
                  "rename", "list", "apply", "mark", "release"}

\* C2: at no time are two workers inside the reconciliation of the same
\* playlist key for the same provider, however long the provider calls and
\* the sleeps of the first worker last relative to the 600 s lease.
C2_OneWorkerPerPlaylist ==
    \A p, q \in Procs :
        (p # q /\ InReconcile(p) /\ InReconcile(q) /\ wk[p].key = wk[q].key) =>
            ProvOf(wk[p]) # ProvOf(wk[q])

\* ================================================ Watcher: folder rename
\* The folders of the tree above a key, the root excluded.
Ancestors(k) == IF k \in {KeyOld, KeyNew} THEN {KeyParent} ELSE {}

\* The notify callback receives the rename of folder from -> to: the tree
\* node moves, the local playlist file is renamed, the debounce timers of
\* both folders and of their ancestors are armed and a thread is spawned to
\* enqueue the Rename event under the old key.
IngestFolderRename(from, to) ==
    /\ Has(local_m3u, from)
    /\ ~Has(local_m3u, to)
    /\ local_m3u' = Put(Del(local_m3u, from), to, local_m3u[from])
    /\ debounce_map' = debounce_map \cup {from, to} \cup Ancestors(from) \cup Ancestors(to)
    /\ spawned' = spawned \cup {QueueEvent(from, "rename", None, to, 0)}
    /\ UNCHANGED <<now, processing_locks, storeVars, providerVars, cfg, wk, next_wid, harnessVars>>

\* One round of the debounce thread: the entries that are due leave the
\* map; for each the playlist file is written again (the folder's tracks
\* have not changed, and the write fails for a folder that is gone) and a
\* thread is spawned to enqueue a Create event under the folder's key.
DebounceFire(due) ==
    /\ due # {}
    /\ due \subseteq debounce_map
    /\ debounce_map' = debounce_map \ due
    /\ spawned' = spawned \cup {QueueEvent(k, "create", None, "", 0) : k \in due}
    /\ UNCHANGED <<now, processing_locks, storeVars, providerVars, cfg, wk, next_wid, local_m3u, harnessVars>>

\* A spawned thread runs enqueue_event.
EnqueueThread(ev) ==
    /\ ev \in spawned
    /\ spawned' = spawned \ {ev}
    /\ event_queue' = Append(event_queue, ev)
    /\ UNCHANGED <<now, processing_locks, playlist_map, track_cache, providerVars, cfg, wk, next_wid,
                   local_m3u, debounce_map, harnessVars>>

\* Folder Old and its parent are mapped and in sync on one provider whose
\* calls succeed; the queue is empty.
InitRename ==
    /\ now = 0
    /\ processing_locks = EmptyMap
    /\ track_cache = EmptyMap
    /\ user_deletes = MaxUserDeletes
    /\ faults = MaxFaults
    /\ next_remote_id = FirstFreshId
    /\ next_wid = 1
    /\ wk = [p \in Procs |-> IdleLocals]
    /\ cfg \in [providers : {<<"spotify">>, <<"tidal">>},
                online_root_playlist : {""},
                catalog : {Tracks},
                max_retries_on_error : {MaxRetriesOnError},
                max_batch_size_spotify : {MaxBatchSize},
                queue_threshold : {<< >>}]
    /\ event_queue = << >>
    /\ local_m3u \in {(KeyOld :> lines) @@ (KeyParent :> lines) : lines \in {<< >>, <<"t1">>}}
    /\ remote = [prov \in Range(cfg.providers) |->
                    (1 :> [name |-> [root |-> "", key |-> KeyOld], tracks |-> DesiredSet(prov, KeyOld)])
                    @@ (2 :> [name |-> [root |-> "", key |-> KeyParent], tracks |-> DesiredSet(prov, KeyParent)])]
    /\ playlist_map = [k \in {<<cfg.providers[1], KeyOld>>, <<cfg.providers[1], KeyParent>>}
                        |-> IF k[2] = KeyOld THEN 1 ELSE 2]
    /\ WatcherIdle
    /\ LockHarnessIdle
    /\ CollapseIdle
    /\ SideIdle

NextRename ==
    \/ IngestFolderRename(KeyOld, KeyNew)
    \/ \E due \in SUBSET Keys3 : DebounceFire(due)
    \/ \E ev \in RenameEvents : EnqueueThread(ev)
    \/ \E p \in Solo : FetchEvents(p)
    \/ \E p \in Solo : Acquire(p)
    \/ \E p \in Solo : EndPass(p)
    \/ \E p \in Solo : ComputeDesired(p)
    \/ \E p \in Solo : EnsurePlaylist(p)
    \/ \E p \in Solo : Validate(p)
    \/ \E p \in Solo : ExplicitRename(p)
    \/ \E p \in Solo : BuildLists(p)
    \/ \E p \in Solo : ApplyCall(p)
    \/ \E p \in Solo : MarkSynced(p)
    \/ \E p \in Solo : ReleaseLock(p)

SpecRename == InitRename /\ [][NextRename]_vars

\* The rename has been ingested and everything it produced is drained.
RenameDrained ==
    /\ \E i \in 1..Len(event_queue) : event_queue[i].action = "rename"
    /\ debounce_map = {}
    /\ spawned = {}
    /\ Synced(1..Len(event_queue))
    /\ \A p \in Procs : wk[p].pc = "idle"

\* The playlists a provider holds for the renamed folder.
FolderPlaylists(prov) ==
    {id \in DOMAIN remote[prov] : remote[prov][id].name.key \in {KeyOld, KeyNew}}

\* C10: once the rename of a mapped folder has been ingested and the worker
\* has drained the Rename event and the debounced Create events, in any
\* group order and debounce timing, ensure_playlist has been called for
\* neither key (no playlist was created) and the provider holds exactly one
\* playlist for the folder.
C10_RenameCreatesNoDuplicate ==
    RenameDrained =>
        /\ next_remote_id = FirstFreshId
        /\ \A prov \in DOMAIN remote : Cardinality(FolderPlaylists(prov)) = 1

\* ------------------------------------------------------------ delete path
BatchHasDelete(w) == \E i \in w.original_ids : event_queue[i].action = "delete"

\* C11: when the batch of a playlist holds a Delete event, the pass, once
\* it reaches the release of the lease, has removed the playlist_map row of
\* (provider, key), has marked every event of the batch synced, and has
\* called nothing but delete_playlist on the provider, whether that call
\* succeeded or failed on every attempt.
C11_DeleteCleansUp ==
    \A p \in Procs :
        (wk[p].pc \notin {"idle", "stopped", "group"} /\ BatchHasDelete(wk[p])) =>
            /\ wk[p].calls \subseteq {"delete"}
            /\ wk[p].pc \in {"delete", "delmap", "mark", "release"}
            /\ wk[p].pc \in {"mark", "release"} => ~Has(playlist_map, <<ProvOf(wk[p]), wk[p].key>>)
            /\ wk[p].pc = "release" => Synced(wk[p].original_ids)

C11_Witness ==
    \E p \in Procs :
        /\ wk[p].pc = "release"
        /\ BatchHasDelete(wk[p])
        /\ "delete" \in wk[p].gave_up
        /\ Len(cfg.providers) = 2 /\ wk[p].pi = 2
\* ============================================================== Resolver
MaxResolves == 2
\* The ISRC tag extract_isrc_from_path finds in a local file ("" for none).
IsrcOf == [t \in Tracks |-> IF t = "t1" THEN "isrc1" ELSE ""]
\* What a search or an ISRC lookup of the provider can answer ("" for
\* Ok(None) or Err).
SearchAnswers == Uris \cup {""}
LookupAnswers == {"", "isrc1"}
Providers == Range(ProviderOrder)
resolverFrame == <<now, processing_locks, event_queue, playlist_map, providerVars, cfg, wk,
                   next_wid, local_m3u, watcherVars, lease, last_lock_call, collapseVars, credVars, queue_deleted, tree, timerVars>>

\* get_track_cache_by_local: the row as an option.
GetTrackCacheByLocal(cache, prov, path) ==
    IF Has(cache, <<prov, path>>) THEN <<cache[<<prov, path>>]>> ELSE << >>

\* upsert_track_cache: INSERT ... ON CONFLICT DO UPDATE SET isrc, remote_id.
UpsertTrackCache(cache, prov, path, isrc, uri) ==
    Put(cache, <<prov, path>>, [isrc |-> isrc, remote_uri |-> uri])

IdleTask ==
    [pc |-> "idle", n |-> 0, prov |-> "", t |-> "", site |-> "", isrc |-> "",
     calls |-> 0, result |-> << >>, after |-> << >>,
     stages |-> << >>,   \* the sources tried so far, in the order they were tried
     hit |-> ""]         \* the source that gave the result

\* The resolution returns: a URI counts as the first success of its key
\* when none was recorded before.
Finish(task, res) ==
    [task EXCEPT !.pc = "done", !.result = res,
                 !.hit = IF res = << >> \/ task.hit # "" THEN task.hit
                         ELSE task.stages[Len(task.stages)]]

\* Track paths that carry the URI themselves.
UriPaths == {"uri::u1"}
\* tp.starts_with("uri::")
StartsWithUri(tp) == tp \in UriPaths
\* tp.trim_start_matches("uri::")
TrimUri == ("uri::u1" :> "u1")

\* The loop over track_ops meets a path with the uri:: prefix: the rest of
\* the path is the URI, and neither the cache nor the provider is asked.
UriOverride(r) ==
    /\ rs[r].pc \in {"idle", "done"}
    /\ rs[r].n < MaxResolves
    /\ \E prov \in Providers, t \in UriPaths :
        /\ StartsWithUri(t)
        /\ rs' = [rs EXCEPT ![r] = Finish([IdleTask EXCEPT !.n = rs[r].n + 1, !.prov = prov, !.t = t,
                                            !.site = "track_ops", !.stages = <<"uri">>], <<TrimUri[t]>>)]
    /\ UNCHANGED <<track_cache, resolved, resolverFrame>>
Record(prov, t, res) ==
    IF res # << >> /\ ~Has(resolved, <<prov, t>>) THEN Put(resolved, <<prov, t>>, res[1]) ELSE resolved

\* A resolution of (prov, t) starts, in the desired-set helper or in the
\* loop over track_ops: the cache is read, and a row with a URI is returned.
ReadCache(r) ==
    /\ rs[r].pc \in {"idle", "done"}
    /\ rs[r].n < MaxResolves
    /\ \E prov \in Providers, t \in Tracks, site \in {"desired", "track_ops"} :
        LET cached == GetTrackCacheByLocal(track_cache, prov, t)
            task == [IdleTask EXCEPT !.n = rs[r].n + 1, !.prov = prov, !.t = t, !.site = site,
                        !.stages = IF site = "track_ops" THEN <<"uri", "cache">> ELSE <<"cache">>,
                        !.after = IF Has(resolved, <<prov, t>>) THEN <<resolved[<<prov, t>>]>> ELSE << >>]
        IN  IF cached # << >> /\ cached[1].remote_uri # ""
            THEN /\ rs' = [rs EXCEPT ![r] = Finish(task, <<cached[1].remote_uri>>)]
                 /\ resolved' = Record(prov, t, <<cached[1].remote_uri>>)
            ELSE /\ rs' = [rs EXCEPT ![r] = [task EXCEPT !.pc = "extract",
                            !.isrc = IF site = "track_ops" /\ cached # << >> THEN cached[1].isrc ELSE ""]]
                 /\ UNCHANGED resolved
    /\ UNCHANGED <<track_cache, resolverFrame>>

\* extract_isrc_from_path; the loop over track_ops persists a freshly
\* extracted ISRC at once, without a remote id.
ExtractIsrc(r) ==
    /\ rs[r].pc = "extract"
    /\ LET task == rs[r]
           fresh == task.isrc = "" /\ IsrcOf[task.t] # ""
           isrc == IF task.isrc = "" THEN IsrcOf[task.t] ELSE task.isrc
       IN  /\ track_cache' = IF task.site = "track_ops" /\ fresh
                             THEN UpsertTrackCache(track_cache, task.prov, task.t, isrc, "")
                             ELSE track_cache
           /\ rs' = [rs EXCEPT ![r] = [task EXCEPT !.isrc = isrc,
                        !.pc = IF isrc # "" THEN "by_isrc" ELSE "search"]]
    /\ UNCHANGED <<resolved, resolverFrame>>

\* A hit of the ISRC search is persisted, and the metadata search is made
\* all the same.
SearchByIsrcThenSearch(r) ==
    /\ rs[r].pc = "by_isrc"
    /\ \E ans \in SearchAnswers :
        LET task == [rs[r] EXCEPT !.calls = @ + 1, !.stages = Append(@, "by_isrc"),
                                  !.hit = IF ans # "" THEN "by_isrc" ELSE @]
        IN  /\ track_cache' = IF ans # "" THEN UpsertTrackCache(track_cache, task.prov, task.t, task.isrc, ans)
                              ELSE track_cache
            /\ rs' = [rs EXCEPT ![r] = [task EXCEPT !.pc = "search"]]
            /\ UNCHANGED resolved
    /\ UNCHANGED resolverFrame

\* provider.search_track_uri_by_isrc; a hit is persisted and returned.
SearchByIsrc(r) ==
    /\ rs[r].pc = "by_isrc"
    /\ \E ans \in SearchAnswers :
        LET task == [rs[r] EXCEPT !.calls = @ + 1, !.stages = Append(@, "by_isrc")]
        IN  IF ans # ""
            THEN /\ track_cache' = UpsertTrackCache(track_cache, task.prov, task.t, task.isrc, ans)
                 /\ rs' = [rs EXCEPT ![r] = Finish(task, <<ans>>)]
                 /\ resolved' = Record(task.prov, task.t, <<ans>>)
            ELSE /\ rs' = [rs EXCEPT ![r] = [task EXCEPT !.pc = "search"]]
                 /\ UNCHANGED <<track_cache, resolved>>
    /\ UNCHANGED resolverFrame

\* provider.search_track_uri on the names derived from the file name; the
\* loop over track_ops also asks lookup_track_isrc before it persists.
SearchTrackUri(r) ==
    /\ rs[r].pc = "search"
    /\ \E ans \in SearchAnswers, looked \in LookupAnswers :
        LET task == [rs[r] EXCEPT !.stages = Append(@, "search")]
            isrc == IF task.site = "track_ops" THEN looked ELSE task.isrc
        IN  IF ans # ""
            THEN /\ track_cache' = UpsertTrackCache(track_cache, task.prov, task.t, isrc, ans)
                 /\ rs' = [rs EXCEPT ![r] = Finish([task EXCEPT
                                !.calls = @ + (IF task.site = "track_ops" THEN 2 ELSE 1)], <<ans>>)]
                 /\ resolved' = Record(task.prov, task.t, <<ans>>)
            ELSE /\ rs' = [rs EXCEPT ![r] = Finish([task EXCEPT !.calls = @ + 1], << >>)]
                 /\ UNCHANGED <<track_cache, resolved>>
    /\ UNCHANGED resolverFrame

InitResolve ==
    /\ LockInit
    /\ CollapseIdle
    /\ WorkerIdle
    /\ CredsIdle
    /\ QueueWhole
    /\ TreeIdle
    /\ TimersIdle
    /\ rs = [r \in Procs |-> IdleTask]
    /\ resolved = EmptyMap

NextResolve ==
    \/ \E r \in Procs : UriOverride(r)
    \/ \E r \in Procs : ReadCache(r)
    \/ \E r \in Procs : ExtractIsrc(r)
    \/ \E r \in Procs : SearchByIsrc(r)
    \/ \E r \in Procs : SearchTrackUri(r)

SpecResolve == InitResolve /\ [][NextResolve]_vars

\* C12: a resolution of (provider, local_path) that starts after one of the
\* same pair has succeeded with URI u makes no search, search-by-ISRC or
\* ISRC-lookup call and returns u.
C12_CachedResolutionReused ==
    \A r \in Procs :
        rs[r].after # << >> =>
            /\ rs[r].calls = 0
            /\ rs[r].pc = "done" => rs[r].result = rs[r].after
\* ====================================================== apply_in_batches
\* A TIDAL account whose playlists keep disappearing while a pass runs.
MaxVanishes == 2
PlaylistVanishes == DeleteOnSite(MaxVanishes)

InitBatch == Init /\ cfg.providers = <<"tidal">>

NextBatch ==
    \/ Next
    \/ PlaylistVanishes

SpecBatch == InitBatch /\ [][NextBatch]_vars

\* --- C26
\* C26: while one chunk is applied ensure_playlist is called at most once.
C26_EnsureAtMostOncePerBatch ==
    \A p \in Procs : wk[p].ensures <= 1

\* =========================================================== Credentials
MaxTokens == 2
ClientIds == {"id1", "id2"}
credFrame == <<now, processing_locks, storeVars, providerVars, cfg, wk, next_wid, local_m3u,
               watcherVars, lease, last_lock_call, collapseVars, resolverVars, queue_deleted, tree, timerVars, ensure>>

\* save_credential_raw: INSERT ... ON CONFLICT(provider) DO UPDATE SET
\* token_json, client_id, client_secret (an absent value is stored as NULL).
SaveCredentialRaw(tbl, prov, json_blob, client_id, client_secret) ==
    Put(tbl, prov, [token_json |-> json_blob, client_id |-> client_id, client_secret |-> client_secret])

UnwrapOr(opt, dflt) == IF opt = << >> THEN dflt ELSE opt[1]

\* The arguments persist_token_to_db passes for the client credentials.
PersistArgs(prov, obj) ==
    IF prov = "spotify" THEN [client_id |-> << >>, client_secret |-> << >>]
    ELSE [client_id |-> <<obj.client_id>>, client_secret |-> <<obj.client_secret>>]

\* run_*_auth: the login flow stores the token with the client credentials.
Login(prov) ==
    /\ \E id \in ClientIds :
        /\ ~Has(credentials, prov) \/ credentials[prov].token_json < MaxTokens
        /\ credentials' = SaveCredentialRaw(credentials, prov,
                IF Has(credentials, prov) THEN credentials[prov].token_json + 1 ELSE 0,
                <<id>>, <<id>>)
    /\ UNCHANGED <<clients, last_refresh, token, last_bearer, credFrame>>

\* SpotifyProvider::new / TidalProvider::new with empty arguments: the
\* client credentials come from the credentials row, "" when NULL.
NewProvider(prov) ==
    /\ Has(credentials, prov)
    /\ clients' = Put(clients, prov,
            [client_id |-> UnwrapOr(credentials[prov].client_id, ""),
             client_secret |-> UnwrapOr(credentials[prov].client_secret, "")])
    /\ token' = Del(token, prov)
    /\ UNCHANGED <<credentials, last_refresh, last_bearer, credFrame>>

\* ensure_token finds the token near expiry: refresh_token_internal asks
\* the token endpoint, which accepts known client credentials only, and
\* persists the new token on success.
RefreshToken(prov) ==
    /\ Has(clients, prov) /\ Has(credentials, prov)
    /\ credentials[prov].token_json < MaxTokens
    /\ IF clients[prov].client_id \in ClientIds /\ clients[prov].client_secret = clients[prov].client_id
       THEN LET args == PersistArgs(prov, clients[prov])
                after == SaveCredentialRaw(credentials, prov, credentials[prov].token_json + 1,
                                           args.client_id, args.client_secret)
            IN  /\ credentials' = after
                /\ last_refresh' = <<[prov |-> prov, before |-> credentials[prov], after |-> after[prov]]>>
                /\ token' = Put(token, prov, after[prov].token_json)
       ELSE UNCHANGED <<credentials, last_refresh, token>>
    /\ UNCHANGED <<clients, last_bearer, credFrame>>

\* --- get_bearer of the Spotify provider
MaxBearerCalls == 1
\* What the token endpoint sends back: a success status with a token, an
\* error status, or a success status whose body has no access_token.
TokenAnswers == {"ok", "status", "body"}

\* The row is written before the status of the response is looked at.
RefreshTokenInternalPersistFirst(tbl, obj, cur, answer) ==
    LET args == PersistArgs("spotify", obj)
        row == SaveCredentialRaw(tbl, "spotify", cur + 1, args.client_id, args.client_secret)
    IN  IF answer = "ok" THEN [ok |-> TRUE, cur |-> cur + 1, tbl |-> row]
        ELSE [ok |-> FALSE, cur |-> cur, tbl |-> row]

\* refresh_token_internal on the clone cur of the cached token: an error
\* status or a body without access_token returns Err before cur is
\* touched; otherwise cur gets the new token and is persisted.
RefreshTokenInternal(tbl, obj, cur, answer) ==
    IF answer = "ok"
    THEN LET args == PersistArgs("spotify", obj)
         IN  [ok |-> TRUE, cur |-> cur + 1,
              tbl |-> SaveCredentialRaw(tbl, "spotify", cur + 1, args.client_id, args.client_secret)]
    ELSE [ok |-> FALSE, cur |-> cur, tbl |-> tbl]

\* get_bearer = ensure_token, then the cached token or Err("no token
\* loaded"). ensure_token fills an empty cache from the credentials row,
\* and when the token is within 30 s of its expiry (near_expiry: the clock
\* is an input) refreshes a clone of it, which replaces the cached token
\* only when the refresh returned Ok. The endpoint accepts known client
\* credentials only.
GetBearer(near_expiry, answer) ==
    /\ Has(clients, "spotify")
    /\ IF last_bearer = << >> THEN TRUE ELSE last_bearer[1].n < MaxBearerCalls
    /\ answer = "ok" =>
            /\ clients["spotify"].client_id \in ClientIds
            /\ clients["spotify"].client_secret = clients["spotify"].client_id
            /\ Has(credentials, "spotify") => credentials["spotify"].token_json < MaxTokens
    /\ LET loaded == IF ~Has(token, "spotify") /\ Has(credentials, "spotify")
                     THEN Put(token, "spotify", credentials["spotify"].token_json)
                     ELSE token
           requested == Has(loaded, "spotify") /\ near_expiry
           r == IF requested
                THEN RefreshTokenInternal(credentials, clients["spotify"], loaded["spotify"], answer)
                ELSE [ok |-> TRUE, cur |-> 0, tbl |-> credentials]
           n == IF last_bearer = << >> THEN 1 ELSE last_bearer[1].n + 1
       IN  /\ credentials' = r.tbl
           /\ token' = IF requested /\ r.ok THEN Put(loaded, "spotify", r.cur) ELSE loaded
           /\ last_refresh' = IF requested /\ r.ok
                               THEN <<[prov |-> "spotify", before |-> credentials["spotify"],
                                       after |-> r.tbl["spotify"]]>>
                               ELSE last_refresh
           /\ last_bearer' = <<[n |-> n, failed |-> requested /\ ~r.ok, cached |-> token,
                                result |-> IF ~r.ok \/ ~Has(loaded, "spotify") THEN "err" ELSE "ok"]>>
    /\ UNCHANGED <<clients, credFrame>>

InitCreds ==
    /\ LockInit
    /\ CollapseIdle
    /\ WorkerIdle
    /\ ResolverIdle
    /\ QueueWhole
    /\ TreeIdle
    /\ TimersIdle
    /\ credentials \in [Providers -> [token_json : {0}, client_id : {<< >>, <<"id1">>},
                                       client_secret : {<< >>, <<"id1">>}]]
    /\ clients = EmptyMap
    /\ last_refresh = << >>
    /\ token = EmptyMap
    /\ last_bearer = << >>
    /\ ensure = << >>

NextCreds ==
    \/ \E prov \in Providers : Login(prov)
    \/ \E prov \in Providers : NewProvider(prov)
    \/ \E prov \in Providers : RefreshToken(prov)
    \/ \E near_expiry \in BOOLEAN, answer \in TokenAnswers : GetBearer(near_expiry, answer)

SpecCreds == InitCreds /\ [][NextCreds]_vars

\* C13: a successful token refresh, of Spotify or of Tidal, replaces
\* token_json and leaves client_id and client_secret of the credentials row
\* as they were before the refresh.
C13_RefreshPreservesClient ==
    last_refresh # << >> =>
        /\ last_refresh[1].after.token_json # last_refresh[1].before.token_json
        /\ last_refresh[1].after.client_id = last_refresh[1].before.client_id
        /\ last_refresh[1].after.client_secret = last_refresh[1].before.client_secret

\* The latest step was a get_bearer whose refresh request failed.
RefreshFailed ==
    /\ last_bearer' # last_bearer
    /\ last_bearer'[1].failed

\* --- C25
\* C25 as stated: a failed refresh request makes the operation return an
\* error and leaves the credentials row and the cached token as they were
\* when the operation began.
C25_FailedRefreshLeavesCacheAsOnEntry ==
    [][RefreshFailed => /\ last_bearer'[1].result = "err"
                        /\ credentials' = credentials
                        /\ token' = token]_vars

\* C25: a failed refresh request makes the operation return an error and
\* leaves the credentials row unchanged; the cached token is the one the
\* refresh was requested for: the token cached on entry, or the token of the
\* credentials row when none was cached.
C25_FailedRefreshKeepsRowAndToken ==
    [][RefreshFailed => /\ last_bearer'[1].result = "err"
                        /\ credentials' = credentials
                        /\ token' = IF Has(token, "spotify") THEN token
                                     ELSE Put(token, "spotify", credentials["spotify"].token_json)]_vars

\* A provider with an empty cache has had its refresh request refused: it
\* returned an error and now caches the token of the row.
C25_Witness ==
    /\ last_bearer # << >>
    /\ last_bearer[1].failed
    /\ last_bearer[1].result = "err"
    /\ ~Has(last_bearer[1].cached, "spotify")
    /\ Has(token, "spotify")
    /\ token["spotify"] = credentials["spotify"].token_json
\* ================================================================= Queue
MaxQueueRows == 3
MaxQueueClock == 1
\* What the watcher enqueues here: the track events of one folder.
QueueInputs == {<<KeyOld, "add", "t1">>, <<KeyOld, "remove", "t1">>}

\* enqueue_event: INSERT with timestamp = now in milliseconds, is_synced = 0.
EnqueueEvent(k, a, t) ==
    /\ Len(event_queue) < MaxQueueRows
    /\ event_queue' = Append(event_queue, QueueEvent(k, a, t, "", now * 1000))
    /\ UNCHANGED <<now, processing_locks, playlist_map, track_cache, providerVars, cfg, wk, next_wid,
                   local_m3u, offstageVars>>

\* The wall clock advances.
QueueTick ==
    /\ now < MaxQueueClock
    /\ now' = now + 1
    /\ UNCHANGED <<processing_locks, storeVars, providerVars, workerVars, harnessVars>>

\* clear_unsynced_events (the queue-clear command): DELETE FROM event_queue
\* WHERE is_synced = 0.
ClearUnsyncedEvents ==
    /\ UnsyncedIds(event_queue, queue_deleted) # {}
    /\ queue_deleted' = queue_deleted \cup UnsyncedIds(event_queue, queue_deleted)
    /\ UNCHANGED <<now, processing_locks, storeVars, providerVars, cfg, wk, next_wid, local_m3u,
                   watcherVars, lockVars, collapseVars, resolverVars, credVars, tree, timerVars>>

\* Both folders are mapped and in sync on the provider, whose calls
\* succeed; the queue is empty; the providers are the ones with a
\* credentials row.
InitQueue ==
    /\ now = 0
    /\ processing_locks = EmptyMap
    /\ track_cache = EmptyMap
    /\ user_deletes = MaxUserDeletes
    /\ faults = MaxFaults
    /\ next_remote_id = FirstFreshId
    /\ next_wid = 1
    /\ wk = [p \in Procs |-> IdleLocals]
    /\ cfg \in [providers : {<< >>, <<"spotify">>},
                online_root_playlist : {""},
                catalog : {Tracks},
                max_retries_on_error : {MaxRetriesOnError},
                max_batch_size_spotify : {MaxBatchSize},
                queue_threshold : {<< >>, <<1>>}]
    /\ event_queue = << >>
    /\ local_m3u = (KeyOld :> <<"t1">>) @@ (KeyParent :> <<"t1">>)
    /\ remote = [prov \in Range(cfg.providers) |->
                    (1 :> [name |-> [root |-> "", key |-> KeyOld], tracks |-> {"u1"}])
                    @@ (2 :> [name |-> [root |-> "", key |-> KeyParent], tracks |-> {"u1"}])]
    /\ playlist_map = [k \in {<<prov, key>> : prov \in Range(cfg.providers), key \in {KeyOld, KeyParent}}
                        |-> IF k[2] = KeyOld THEN 1 ELSE 2]
    /\ WatcherIdle
    /\ LockHarnessIdle
    /\ CollapseIdle
    /\ ResolverIdle
    /\ CredsIdle
    /\ QueueWhole
    /\ TreeIdle
    /\ TimersIdle

NextQueue ==
    \/ \E inp \in QueueInputs : EnqueueEvent(inp[1], inp[2], inp[3])
    \/ QueueTick
    \/ ClearUnsyncedEvents
    \/ \E p \in Solo : FetchEvents(p)
    \/ \E p \in Solo : Acquire(p)
    \/ \E p \in Solo : EndPass(p)
    \/ \E p \in Solo : ComputeDesired(p)
    \/ \E p \in Solo : Validate(p)
    \/ \E p \in Solo : BuildLists(p)
    \/ \E p \in Solo : ApplyCall(p)
    \/ \E p \in Solo : MarkSynced(p)
    \/ \E p \in Solo : ReleaseLock(p)

SpecQueue == InitQueue /\ [][NextQueue]_vars

\* --- C14
\* Row i is in the queue and unsynced.
LiveUnsynced(q, gone, i) == i \in UnsyncedIds(q, gone)
\* This step is worker p's run_worker_once starting.
PassStarts(p) == wk'[p].passes = wk[p].passes + 1
\* This step is mark_events_synced applied to a batch that names row i.
MarkedInStep(i) ==
    \E p \in Procs : wk[p].pc = "mark" /\ wk'[p].pc # "mark" /\ i \in wk[p].original_ids
\* This step is clear_unsynced_events.
ClearedInStep(i) ==
    /\ queue_deleted' = queue_deleted \cup UnsyncedIds(event_queue, queue_deleted)
    /\ i \in queue_deleted'
    /\ wk' = wk
\* Every fetch that starts a pass returns all the live unsynced rows.
FetchReturnsAll ==
    \A p \in Procs : (PassStarts(p) /\ wk'[p].pc = "group") =>
        Range(wk'[p].events) = UnsyncedIds(event_queue, queue_deleted)

\* C14 (as stated): an enqueued event stays in the queue as unsynced, and
\* is returned by every fetch, until mark_events_synced is applied to its
\* id; no other operation removes it or sets its synced flag.
C14_OnlyMarkSyncedEndsAnEvent ==
    [][/\ FetchReturnsAll
       /\ \A i \in 1..Len(event_queue) :
            LiveUnsynced(event_queue, queue_deleted, i) =>
                \/ LiveUnsynced(event_queue', queue_deleted', i)
                \/ MarkedInStep(i)]_vars

\* C14 (amended): an enqueued event stays in the queue as unsynced, and is
\* returned by every fetch, until mark_events_synced is applied to its id
\* or clear_unsynced_events deletes it; no other operation removes it or
\* sets its synced flag.
C14_MarkSyncedOrClearEndsAnEvent ==
    [][/\ FetchReturnsAll
       /\ \A i \in 1..Len(event_queue) :
            LiveUnsynced(event_queue, queue_deleted, i) =>
                \/ LiveUnsynced(event_queue', queue_deleted', i)
                \/ MarkedInStep(i)
                \/ ClearedInStep(i)]_vars

\* A pass marked its batch while a later row stayed unsynced through it,
\* and an earlier clear deleted rows.
C14_Witness ==
    \E p \in Procs :
        /\ wk[p].pc = "release"
        /\ wk[p].original_ids # {}
        /\ \E i \in 1..Len(event_queue) :
            /\ LiveUnsynced(event_queue, queue_deleted, i)
            /\ i \notin wk[p].original_ids
        /\ queue_deleted # {}

\* --- C15
\* ids names rows in ascending (timestamp, id) order.
AscendingByTimestampThenId(q, ids) ==
    \A i \in 1..(Len(ids) - 1) :
        \/ q[ids[i]].timestamp_ms < q[ids[i + 1]].timestamp_ms
        \/ /\ q[ids[i]].timestamp_ms = q[ids[i + 1]].timestamp_ms
           /\ ids[i] < ids[i + 1]

\* C15: the events of one playlist handed to collapse_events in a worker
\* pass are in ascending (timestamp, id) order, also when events carry the
\* same millisecond timestamp.
C15_CollapserInputAscending ==
    \A p \in Procs :
        (wk[p].pc \notin {"idle", "stopped", "group"} /\ wk[p].original_ids # {}) =>
            AscendingByTimestampThenId(event_queue, GroupOf(wk[p], wk[p].key))

\* --- C16
\* The queue is longer than queue_length_stop_cloud_sync_threshold.
OverThreshold ==
    /\ cfg.queue_threshold # << >>
    /\ Cardinality(UnsyncedIds(event_queue, queue_deleted)) > cfg.queue_threshold[1]

\* C16: a pass that starts with more unsynced events than the threshold
\* ends at once: it marks no event synced, acquires no lease and calls no
\* provider, and every row of the queue, the ones enqueued meanwhile
\* included, is kept.
C16_BackpressureConsumesNothing ==
    [][\A p \in Procs : (PassStarts(p) /\ OverThreshold) =>
            /\ wk'[p].pc = "idle"
            /\ wk'[p].wid = 0
            /\ wk'[p].calls = {}
            /\ UNCHANGED <<event_queue, queue_deleted, processing_locks, playlist_map, providerVars>>]_vars

\* A pass returned on the threshold and the queue holds all its rows,
\* still unsynced.
C16_Witness ==
    \E p \in Procs :
        /\ wk[p].stopped_at = "backpressure"
        /\ wk[p].pc = "idle"
        /\ processing_locks = EmptyMap
        /\ Cardinality(UnsyncedIds(event_queue, queue_deleted)) = MaxQueueRows

RateLimitedInStep(p) ==
    /\ wk[p].pc = "apply"
    /\ \/ wk'[p].rate_limits = wk[p].rate_limits + 1
       \/ "rate_limited" \in wk'[p].gave_up \ wk[p].gave_up

\* C18: a rate-limited response to add_tracks or remove_tracks makes the
\* worker retry the same batch without counting against the retry cap: the
\* attempt counter compared with max_retries_on_error is not advanced by
\* it, and a batch answered by fewer than max_retries_on_error rate-limited
\* responses and then a success is applied.
C18_RateLimitNotCounted ==
    [][\A p \in Procs : RateLimitedInStep(p) =>
            /\ wk'[p].pc = "apply"
            /\ wk'[p].phase = wk[p].phase
            /\ wk'[p].pos = wk[p].pos
            /\ wk'[p].attempt = wk[p].attempt]_vars

\* ================================================ Watcher: the folder tree
MaxNotifications == 1
MaxReconciles == 1
MaxWatchQueue == 4

\* Folders and files are named by their path relative to root_folder, as
\* the sequence of its components; the root is << >>.
RootFolder == << >>
\* An absent Option<path>.
NoPath == << >>
DirA == <<"A">>
DirAB == <<"A", "B">>
DirC == <<"C">>
WatchDirs == {RootFolder, DirA, DirAB, DirC}
\* What Samba leaves behind while a client writes: a temporary folder, a
\* file in it, and a temporary file next to the track it will become.
TmpDir == <<".::TMPNAME:x">>
FileInTmp == Append(TmpDir, "t.mp3")
TmpFile == Append(DirAB, ".::TMPNAME:t.mp3")
\* The path components s with s.starts_with(".::TMPNAME:").
SmbTempNames == {".::TMPNAME:x", ".::TMPNAME:t.mp3"}
\* Nothing is recognised as a temporary path.
IsSmbTempPathNever(path) == FALSE
\* is_smb_temp_path
IsSmbTempPath(path) == \E i \in 1..Len(path) : path[i] \in SmbTempNames
\* path_matches_extensions with file_extensions = ["*.mp3"]
PathMatchesExtensions(path) == path # << >> /\ path[Len(path)] \in {"t.mp3", ".::TMPNAME:t.mp3"}
WatchFiles == {Append(d, "t.mp3") : d \in {DirAB, DirC}}

\* strip_prefix(root_folder).display().to_string() of a folder, and
\* to_string_lossy() of a file: the names the queue and the debounce map
\* are keyed by.
Display ==
    (RootFolder :> "") @@ (DirA :> "A") @@ (DirAB :> "A/B") @@ (DirC :> "C")
    @@ (Append(DirAB, "t.mp3") :> "A/B/t.mp3") @@ (Append(DirC, "t.mp3") :> "C/t.mp3")
    @@ (TmpDir :> ".::TMPNAME:x") @@ (FileInTmp :> ".::TMPNAME:x/t.mp3")
    @@ (TmpFile :> "A/B/.::TMPNAME:t.mp3")
    @@ (Append(DirC, "c.jpg") :> "C/c.jpg") @@ (Append(DirAB, "c.jpg") :> "A/B/c.jpg")
WatchKeys == {Display[d] : d \in WatchDirs}

\* Path::parent and Path::starts_with
ParentPath(p) == SubSeq(p, 1, Len(p) - 1)
StartsWith(p, q) == Len(q) <= Len(p) /\ SubSeq(p, 1, Len(q)) = q

\* cfg.whitelist: << >> when empty, else <<the folders whose full path one
\* of its regexes matches>>.
Whitelists == {<< >>, <<{}>>, <<{DirAB}>>, <<{DirA, DirAB}>>}
\* wlvec.iter().any(|re| re.is_match(&path_str))
IsMatch(wl, p) == p \in wl[1]

\* What a scan of the disk can find: the folders and the media files.
FileSystems ==
    {[dirs |-> {RootFolder, DirA}, files |-> {}],
     [dirs |-> {RootFolder, DirA, DirAB}, files |-> {Append(DirAB, "t.mp3")}],
     [dirs |-> {RootFolder, DirA, DirAB, DirC}, files |-> {Append(DirC, "t.mp3")}]}

\* InMemoryTree::build: a node for every folder the whitelist admits and
\* for the parent of every media file; entries on a temporary path are
\* skipped.
Build(fs, wl) ==
    LET kept == {d \in fs.dirs : ~IsSmbTempPath(d) /\ (wl = << >> \/ IsMatch(wl, d))}
        files == {f \in fs.files : ~IsSmbTempPath(f) /\ PathMatchesExtensions(f)}
        parents == {ParentPath(f) : f \in files}
    IN  [d \in kept \cup parents |-> {f \in files : ParentPath(f) = d}]

\* folder_for_path, from folder p upwards: the nearest folder that is a
\* node or that the whitelist admits.
RECURSIVE FolderWalk(_, _, _)
FolderWalk(nodes, wl, p) ==
    IF ~StartsWith(p, RootFolder) THEN << >>
    ELSE IF p \in DOMAIN nodes THEN <<p>>
    ELSE IF wl = << >> \/ IsMatch(wl, p) THEN <<p>>
    ELSE IF p = RootFolder THEN << >>
    ELSE FolderWalk(nodes, wl, ParentPath(p))

\* folder_for_path of a file path.
FolderForPath(nodes, wl, path) == FolderWalk(nodes, wl, ParentPath(path))

LogicalOp(op, folder, track, to) ==
    [op |-> op, playlist_folder |-> folder, track_path |-> track, to_folder |-> to]

SyntheticEvents ==
    {[kind |-> "FileCreate", path |-> f, to |-> NoPath] : f \in WatchFiles}
    \cup {[kind |-> "FileRemove", path |-> f, to |-> NoPath] : f \in WatchFiles}
    \cup {[kind |-> "FileRename", path |-> Append(DirAB, "t.mp3"), to |-> Append(DirC, "t.mp3")]}
    \cup {[kind |-> "FolderCreate", path |-> d, to |-> NoPath] : d \in WatchDirs \ {RootFolder}}
    \cup {[kind |-> "FolderRemove", path |-> d, to |-> NoPath] : d \in WatchDirs \ {RootFolder}}
    \cup {[kind |-> "FolderRename", path |-> DirC, to |-> DirAB]}

\* apply_synthetic_event: the nodes afterwards and the logical ops.
ApplySyntheticEvent(nodes, wl, s) ==
    IF s.kind = "FileCreate"
    THEN LET f == FolderForPath(nodes, wl, s.path)
         IN  IF f = << >> THEN [nodes |-> nodes, ops |-> << >>]
             ELSE [nodes |-> Put(nodes, f[1], IF Has(nodes, f[1]) THEN nodes[f[1]] \cup {s.path} ELSE {s.path}),
                   ops |-> <<LogicalOp("Add", f[1], s.path, NoPath)>>]
    ELSE IF s.kind = "FileRemove"
    THEN LET f == FolderForPath(nodes, wl, s.path)
         IN  IF f = << >> THEN [nodes |-> nodes, ops |-> << >>]
             ELSE [nodes |-> IF Has(nodes, f[1]) THEN Put(nodes, f[1], nodes[f[1]] \ {s.path}) ELSE nodes,
                   ops |-> <<LogicalOp("Remove", f[1], s.path, NoPath)>>]
    ELSE IF s.kind = "FileRename"
    THEN LET ff == FolderForPath(nodes, wl, s.path)
             n1 == IF ff # << >> /\ Has(nodes, ff[1]) THEN Put(nodes, ff[1], nodes[ff[1]] \ {s.path}) ELSE nodes
             tf == FolderForPath(n1, wl, s.to)
             n2 == IF tf # << >> /\ Has(n1, tf[1]) THEN Put(n1, tf[1], n1[tf[1]] \cup {s.to}) ELSE n1
         IN  [nodes |-> n2,
              ops |-> (IF ff = << >> THEN << >> ELSE <<LogicalOp("Remove", ff[1], s.path, NoPath)>>)
                      \o (IF tf = << >> THEN << >> ELSE <<LogicalOp("Add", tf[1], s.to, NoPath)>>)]
    ELSE IF s.kind = "FolderRename"
    THEN [nodes |-> IF Has(nodes, s.path)
                    THEN (IF Has(nodes, s.to) THEN Del(nodes, s.path)
                          ELSE Put(Del(nodes, s.path), s.to, nodes[s.path]))
                    ELSE (IF Has(nodes, s.to) THEN nodes ELSE Put(nodes, s.to, {})),
          ops |-> <<LogicalOp("PlaylistRename", s.path, NoPath, s.to)>>]
    ELSE IF s.kind = "FolderCreate"
    THEN [nodes |-> IF Has(nodes, s.path) THEN nodes ELSE Put(nodes, s.path, {}),
          ops |-> <<LogicalOp("Create", s.path, NoPath, NoPath)>>]
    ELSE [nodes |-> Del(nodes, s.path),
          ops |-> <<LogicalOp("Delete", s.path, NoPath, NoPath)>>]

\* The loop over the parents of a folder, from p up to the root: the ones
\* that are tree nodes, nearest first.
RECURSIVE AncestorNodes(_, _)
AncestorNodes(nodes, p) ==
    IF ~StartsWith(p, RootFolder) THEN << >>
    ELSE (IF p \in DOMAIN nodes THEN <<p>> ELSE << >>)
         \o (IF p = RootFolder THEN << >> ELSE AncestorNodes(nodes, ParentPath(p)))

\* The parents of folder f that are tree nodes; the parent of the root is
\* not under the root.
ParentNodes(nodes, f) == IF f = RootFolder THEN << >> ELSE AncestorNodes(nodes, ParentPath(f))

\* target_folders without the loop over the parents.
TargetFoldersOnlySelf(nodes, f) == <<f>>

\* target_folders: the folder itself, then its parents that are nodes.
TargetFolders(nodes, f) == <<f>> \o ParentNodes(nodes, f)

\* What the callback does for one logical op: the debounce timers it arms
\* and the events it hands to an enqueue thread.
OpEffect(nodes, wl, o) ==
    LET rejected == wl # << >> /\ ~IsMatch(wl, o.playlist_folder)
        targets == TargetFolders(nodes, o.playlist_folder)
    IN  IF o.op \in {"Add", "Remove"}
        THEN IF rejected THEN [debounce |-> {}, enq |-> << >>]
             ELSE [debounce |-> {Display[t] : t \in Range(targets)},
                   enq |-> [i \in 1..Len(targets) |->
                             QueueEvent(Display[targets[i]], IF o.op = "Add" THEN "add" ELSE "remove",
                                        Display[o.track_path], "", 0)]]
        ELSE IF o.op = "Create"
        THEN [debounce |-> {Display[t] : t \in Range(targets)}, enq |-> << >>]
        ELSE IF o.op = "Delete"
        THEN IF rejected THEN [debounce |-> {}, enq |-> << >>]
             ELSE [debounce |-> {Display[t] : t \in Range(ParentNodes(nodes, o.playlist_folder))},
                   enq |-> <<QueueEvent(Display[o.playlist_folder], "delete", None, "", 0)>>]
        ELSE IF rejected THEN [debounce |-> {}, enq |-> << >>]
             ELSE [debounce |-> {Display[t] : t \in Range(targets) \cup Range(TargetFolders(nodes, o.to_folder))},
                   enq |-> <<QueueEvent(Display[o.playlist_folder], "rename", None,
                                        Display[o.to_folder], 0)>>]

\* The playlist file of a renamed folder moves with it when it exists.
\* The rows in the queue plus the ones on their way to it once armed
\* timers dm and threads sp have run.
QueueLoad(dm, sp) == Len(event_queue) + Cardinality(sp) + Cardinality(dm)

RenamePlaylistFile(m3u, wl, o) ==
    IF o.op = "PlaylistRename" /\ (wl = << >> \/ IsMatch(wl, o.playlist_folder))
       /\ Has(m3u, Display[o.playlist_folder]) /\ o.playlist_folder # o.to_folder
    THEN Put(Del(m3u, Display[o.playlist_folder]), Display[o.to_folder], m3u[Display[o.playlist_folder]])
    ELSE m3u

\* The notify callback once the notification has been turned into its
\* synthetic events (none or one here): the tree is updated, and for each
\* logical op the timers are armed and a thread is spawned with the events
\* to enqueue. dropped records that the notification named a temporary
\* path; max bounds the notifications of a run.
Callback(synths, dropped, max) ==
    /\ tree.count < max
    /\ LET r == IF synths = << >> THEN [nodes |-> tree.nodes, ops |-> << >>]
                ELSE ApplySyntheticEvent(tree.nodes, tree.whitelist, synths[1])
           eff == [i \in 1..Len(r.ops) |-> OpEffect(r.nodes, tree.whitelist, r.ops[i])]
           enq == IF Len(eff) = 0 THEN << >>
                  ELSE IF Len(eff) = 1 THEN eff[1].enq ELSE eff[1].enq \o eff[2].enq
       IN  /\ tree' = [tree EXCEPT !.nodes = r.nodes, !.count = @ + 1, !.ops = r.ops, !.enq = enq,
                                   !.dropped = dropped]
           /\ debounce_map' = debounce_map \cup UNION {eff[i].debounce : i \in 1..Len(eff)}
           /\ spawned' = spawned \cup Range(enq)
           /\ QueueLoad(debounce_map', spawned') <= MaxWatchQueue
           /\ local_m3u' = IF r.ops = << >> THEN local_m3u
                           ELSE RenamePlaylistFile(local_m3u, tree.whitelist, r.ops[1])
    /\ UNCHANGED <<now, processing_locks, storeVars, providerVars, cfg, wk, next_wid,
                   lockVars, collapseVars, resolverVars, credVars, queue_deleted>>

\* The notify callback for one synthetic event.
Notify(s) == Callback(<<s>>, FALSE, MaxNotifications) /\ UNCHANGED timerVars

\* Every node of the tree is reconciled, whitelisted or not.
ReconcileFoldersAll(nodes, wl) == DOMAIN nodes
\* The nodes run_nightly_reconcile keeps: it tests the whitelist again.
ReconcileFolders(nodes, wl) == {n \in DOMAIN nodes : wl = << >> \/ IsMatch(wl, n)}

\* run_nightly_reconcile on the disk fs: a fresh tree is built, and for
\* every node the whitelist admits the playlist file is written and a
\* thread enqueues a Create event; the threads are joined before it
\* returns, so the events are in the queue, in the order the threads ran.
NightlyReconcile(fs) ==
    /\ tree.nightly < MaxReconciles
    /\ tree' = [tree EXCEPT !.nightly = @ + 1, !.disk = <<fs>>]
    /\ \E order \in Orderings({Display[d] : d \in ReconcileFolders(Build(fs, tree.whitelist), tree.whitelist)}) :
        event_queue' = event_queue \o [i \in 1..Len(order) |-> QueueEvent(order[i], "create", None, "", 0)]
    /\ Len(event_queue') + Cardinality(spawned) + Cardinality(debounce_map) <= MaxWatchQueue
    /\ UNCHANGED <<now, processing_locks, playlist_map, track_cache, providerVars, cfg, wk, next_wid,
                   local_m3u, watcherVars, lockVars, collapseVars, resolverVars, credVars, queue_deleted,
                   timerVars>>

\* Every event a watcher or reconcile thread can be handed.
WatchEvents ==
    {QueueEvent(k, a, Display[f], "", 0) : k \in WatchKeys, a \in TrackActions, f \in WatchFiles}
    \cup {QueueEvent(k, a, None, "", 0) : k \in WatchKeys, a \in {"create", "delete"}}
    \cup {QueueEvent(k, "rename", None, to, 0) : k \in WatchKeys, to \in WatchKeys}

\* run_watcher has scanned the disk; nothing is queued.
InitWatch ==
    /\ LockInit
    /\ CollapseIdle
    /\ WorkerIdle
    /\ ResolverIdle
    /\ CredsIdle
    /\ QueueWhole
    /\ TimersIdle
    /\ \E fs \in FileSystems, wl \in Whitelists :
        tree = [nodes |-> Build(fs, wl), whitelist |-> wl, count |-> 0, nightly |-> 0,
                ops |-> << >>, enq |-> << >>, dropped |-> FALSE, disk |-> << >>]

NextWatch ==
    \/ \E s \in SyntheticEvents : Notify(s)
    \/ \E due \in SUBSET WatchKeys : DebounceFire(due)
    \/ \E ev \in WatchEvents : EnqueueThread(ev)
    \/ \E fs \in FileSystems : NightlyReconcile(fs)

SpecWatch == InitWatch /\ [][NextWatch]_vars

\* --- C19
\* Folder a is above folder f.
IsAncestor(a, f) == Len(a) < Len(f) /\ SubSeq(f, 1, Len(a)) = a

\* The events of action act and track t that the latest callback handed to
\* its enqueue threads.
HandedOver(tr, act, t) ==
    SelectSeq(tr.enq, LAMBDA e : e.action = act /\ e.track_path = Display[t])

\* This step is a notify callback.
CallbackStep == tree'.count = tree.count + 1

\* C19: a track-level Add or Remove in a whitelisted folder F enqueues one
\* event of that action and track path for F and one for every ancestor of
\* F that is a tree node, up to the root, and for no other playlist key.
C19_TrackOpReachesAncestors ==
    [][CallbackStep =>
        \A i \in 1..Len(tree'.ops) :
            LET o == tree'.ops[i]
                act == IF o.op = "Add" THEN "add" ELSE "remove"
                expected == {o.playlist_folder}
                            \cup {a \in DOMAIN tree'.nodes : IsAncestor(a, o.playlist_folder)}
                handed == HandedOver(tree', act, o.track_path)
            IN  (/\ o.op \in {"Add", "Remove"}
                 /\ (tree.whitelist = << >> \/ IsMatch(tree.whitelist, o.playlist_folder))) =>
                    /\ Len(handed) = Cardinality(expected)
                    /\ {handed[j].playlist_name : j \in 1..Len(handed)} = {Display[d] : d \in expected}
                    /\ Range(handed) \subseteq spawned']_vars

\* A track was added in A/B while A and C were tree nodes, and the events
\* for A/B and A, and none for C, have reached the queue.
C19_Witness ==
    /\ tree.ops = <<LogicalOp("Add", DirAB, Append(DirAB, "t.mp3"), NoPath)>>
    /\ tree.whitelist # << >>
    /\ {DirA, DirAB, DirC} \subseteq DOMAIN tree.nodes
    /\ Len(tree.enq) = 2
    /\ spawned = {}
    /\ {event_queue[i].playlist_name : i \in {j \in 1..Len(event_queue) : event_queue[j].action = "add"}}
            = {"A/B", "A"}

\* --- C20
\* C20: no event is ever enqueued, by the ingest, the debouncer or the
\* nightly reconcile, for a folder that the whitelist rejects; with a
\* whitelist that rejects every folder the queue stays empty.
C20_OnlyWhitelistedFoldersEnqueued ==
    tree.whitelist # << >> =>
        \A i \in 1..Len(event_queue) :
            event_queue[i].playlist_name \in {Display[d] : d \in tree.whitelist[1]}
\* ======================================= Watcher: raw notifications (SMB)
MaxRawNotifications == 2
\* The paths a notification can name here.
SmbPaths == {DirC, Append(DirC, "t.mp3"), TmpDir, FileInTmp, TmpFile}
\* The renames: a temporary file becomes a track, a track is moved, and a
\* folder is moved out of and into a temporary name.
SmbRenames ==
    {<<TmpFile, Append(DirAB, "t.mp3")>>, <<Append(DirC, "t.mp3"), Append(DirAB, "t.mp3")>>,
     <<TmpDir, DirC>>, <<DirC, TmpDir>>}
SmbKeys == {Display[p] : p \in WatchDirs \cup {TmpDir}}

\* A notify::Event as the callback reads it: its kind, its paths, what
\* path.is_file() and path.is_dir() answer for a single path, and the
\* RemoveKind of a removal.
NotifyEvents ==
    {[kind |-> k, paths |-> <<p>>, is_file |-> f[1], is_dir |-> f[2], remove_kind |-> "Other"] :
        k \in {"Create", "Modify"}, p \in SmbPaths,
        f \in {<<TRUE, FALSE>>, <<FALSE, TRUE>>}}
    \cup {[kind |-> "Remove", paths |-> <<p>>, is_file |-> FALSE, is_dir |-> FALSE, remove_kind |-> rk] :
            p \in SmbPaths, rk \in {"File", "Folder", "Other"}}
    \cup {[kind |-> "Modify", paths |-> pq, is_file |-> FALSE, is_dir |-> FALSE, remove_kind |-> "Other"] :
            pq \in SmbRenames}

SyntheticEvent(kind, path, to) == [kind |-> kind, path |-> path, to |-> to]

\* The first part of the callback: the synthetic events of a notification.
\* With two paths it is a rename, of a folder when either path is a tree
\* node; with one path the kind and the file type decide.
SynthsOf(nodes, ev) ==
    IF Len(ev.paths) >= 2
    THEN LET from == ev.paths[1]
             to == ev.paths[2]
         IN  IF IsSmbTempPath(from) \/ IsSmbTempPath(to) THEN << >>
             ELSE IF Has(nodes, from) \/ Has(nodes, to)
             THEN <<SyntheticEvent("FolderRename", from, to)>>
             ELSE <<SyntheticEvent("FileRename", from, to)>>
    ELSE LET path == ev.paths[1]
             media == PathMatchesExtensions(path)
         IN  IF IsSmbTempPath(path) THEN << >>
             ELSE IF ev.kind = "Create"
             THEN (IF ev.is_file THEN (IF media THEN <<SyntheticEvent("FileCreate", path, NoPath)>> ELSE << >>)
                   ELSE IF ev.is_dir THEN <<SyntheticEvent("FolderCreate", path, NoPath)>>
                   ELSE << >>)
             ELSE IF ev.kind = "Remove"
             THEN (IF ev.is_file THEN (IF media THEN <<SyntheticEvent("FileRemove", path, NoPath)>> ELSE << >>)
                   ELSE IF ev.is_dir THEN <<SyntheticEvent("FolderRemove", path, NoPath)>>
                   ELSE IF ev.remove_kind = "File"
                   THEN (IF media THEN <<SyntheticEvent("FileRemove", path, NoPath)>> ELSE << >>)
                   ELSE IF ev.remove_kind = "Folder" THEN <<SyntheticEvent("FolderRemove", path, NoPath)>>
                   ELSE << >>)
             ELSE IF ev.kind = "Modify"
             THEN (IF ev.is_file /\ media THEN <<SyntheticEvent("FileCreate", path, NoPath)>> ELSE << >>)
             ELSE << >>

\* The notify callback for one notification.
OnNotifyEvent(ev) ==
    /\ Callback(SynthsOf(tree.nodes, ev), \E i \in 1..Len(ev.paths) : ev.paths[i] \in {TmpDir, FileInTmp, TmpFile},
             MaxRawNotifications)
    /\ UNCHANGED timerVars

\* A disk on which a Samba client is writing.
SmbFileSystems ==
    {[dirs |-> {RootFolder, DirA, DirAB, DirC, TmpDir},
      files |-> {Append(DirC, "t.mp3"), FileInTmp, TmpFile}]}
\* No whitelist, or one whose regex also matches the temporary folder.
SmbWhitelists == {<< >>, <<{DirAB, DirC, TmpDir}>>}

SmbEvents ==
    {QueueEvent(k, a, t, "", 0) : k \in SmbKeys, a \in TrackActions,
                                  t \in {Display[f] : f \in WatchFiles \cup {FileInTmp, TmpFile}}}
    \cup {QueueEvent(k, a, None, "", 0) : k \in SmbKeys, a \in {"create", "delete"}}
    \cup {QueueEvent(k, "rename", None, to, 0) : k \in SmbKeys, to \in SmbKeys}

\* run_watcher has scanned a disk that holds temporary entries.
InitSmb ==
    /\ LockInit
    /\ CollapseIdle
    /\ WorkerIdle
    /\ ResolverIdle
    /\ CredsIdle
    /\ QueueWhole
    /\ TimersIdle
    /\ \E fs \in SmbFileSystems, wl \in SmbWhitelists :
        tree = [nodes |-> Build(fs, wl), whitelist |-> wl, count |-> 0, nightly |-> 0,
                ops |-> << >>, enq |-> << >>, dropped |-> FALSE, disk |-> << >>]

NextSmb ==
    \/ \E ev \in NotifyEvents : OnNotifyEvent(ev)
    \/ \E due \in SUBSET SmbKeys : DebounceFire(due)
    \/ \E ev \in SmbEvents : EnqueueThread(ev)
    \/ \E fs \in SmbFileSystems : NightlyReconcile(fs)

SpecSmb == InitSmb /\ [][NextSmb]_vars

\* --- C21
\* The keys and track paths with a component that starts with .::TMPNAME:
SmbTempStrings == {Display[p] : p \in {q \in DOMAIN Display : \E i \in 1..Len(q) : q[i] \in SmbTempNames}}

\* C21: whatever one-path and two-path notifications arrive, no row of the
\* queue, no event on its way to it and no armed debounce timer names a
\* playlist key or a track path with a component starting with .::TMPNAME:
C21_NoSmbTempPathInEvents ==
    /\ \A i \in 1..Len(event_queue) :
        /\ event_queue[i].playlist_name \notin SmbTempStrings
        /\ event_queue[i].track_path \notin SmbTempStrings
        /\ event_queue[i].to \notin SmbTempStrings
    /\ \A e \in spawned : e.playlist_name \notin SmbTempStrings /\ e.track_path \notin SmbTempStrings
    /\ debounce_map \cap SmbTempStrings = {}

\* A notification that named a temporary path was the second of a run and
\* left nothing behind, while the one before it has put its event in the
\* queue.
C21_Witness ==
    /\ tree.count = 2
    /\ tree.dropped
    /\ tree.ops = << >>
    /\ event_queue # << >>
    /\ spawned = {}
\* ================================================ Watcher: debounce timers
MaxBurstOps == 2
MaxDebounceClock == 4
\* cfg.debounce_ms, in ticks of the clock.
DebounceMs == 2

\* The history of a folder nobody has touched: last_op is the instant of
\* the latest logical op that named the folder or armed its timer, joined
\* that it came less than debounce_ms after the op before it, arming
\* the instant of the latest one that armed its timer (-1 for none), fires
\* how often the timer has fired since then; early, early_any and split
\* record a fire less than debounce_ms after arming, after a last_op that
\* joined a burst, and between two arming ops of one burst.
NoBurst ==
    [last_op |-> -1, joined |-> FALSE, arming |-> -1, fires |-> 0, early |-> FALSE, early_any |-> FALSE,
     split |-> FALSE]
BurstOf(b, k) == IF Has(b, k) THEN b[k] ELSE NoBurst

\* dm.insert(folder, Instant::now() + debounce_ms)
ArmTimer(due, k, t) == Put(due, k, t)

RECURSIVE ArmAll(_, _, _)
ArmAll(due, keys, t) ==
    IF keys = {} THEN due
    ELSE LET k == CHOOSE x \in keys : TRUE
         IN  ArmAll(ArmTimer(due, k, t), keys \ {k}, t)

\* The keys whose timer the callback arms for synthetic event s, and the
\* folders its logical ops name.
ArmedBy(s) ==
    LET r == ApplySyntheticEvent(tree.nodes, tree.whitelist, s)
    IN  UNION {OpEffect(r.nodes, tree.whitelist, r.ops[i]).debounce : i \in 1..Len(r.ops)}
NamedBy(s) ==
    LET r == ApplySyntheticEvent(tree.nodes, tree.whitelist, s)
    IN  UNION {{Display[r.ops[i].playlist_folder]}
               \cup (IF r.ops[i].op = "PlaylistRename" THEN {Display[r.ops[i].to_folder]} ELSE {}) :
               i \in 1..Len(r.ops)}

\* The notify callback for one synthetic event at instant now: every timer
\* it arms is due debounce_ms from now.
TimedNotify(s) ==
    /\ now + DebounceMs <= MaxDebounceClock
    /\ Callback(<<s>>, FALSE, MaxBurstOps)
    /\ earliest_due' = ArmAll(earliest_due, ArmedBy(s), now + DebounceMs)
    /\ burst' = [k \in DOMAIN burst \cup NamedBy(s) \cup ArmedBy(s) |->
                    LET b == BurstOf(burst, k)
                    IN  IF k \notin NamedBy(s) \cup ArmedBy(s) THEN b
                        ELSE IF k \notin ArmedBy(s)
                        THEN [b EXCEPT !.last_op = now,
                                       !.joined = b.last_op # -1 /\ now - b.last_op < DebounceMs]
                        ELSE [b EXCEPT !.last_op = now, !.arming = now, !.fires = 0,
                                       !.joined = b.last_op # -1 /\ now - b.last_op < DebounceMs,
                                       !.split = @ \/ (b.arming # -1 /\ now - b.arming < DebounceMs
                                                       /\ b.fires > 0)]]

\* One round of the debounce thread at instant now: the timers that are
\* due leave the map, and for each the playlist file is written again and a
\* thread is spawned to enqueue a Create event under the folder's key.
DebouncePoll ==
    LET ready == {k \in DOMAIN earliest_due : earliest_due[k] <= now}
    IN  /\ ready # {}
        /\ earliest_due' = [k \in DOMAIN earliest_due \ ready |-> earliest_due[k]]
        /\ debounce_map' = debounce_map \ ready
        /\ spawned' = spawned \cup {QueueEvent(k, "create", None, "", 0) : k \in ready}
        /\ burst' = [k \in DOMAIN burst \cup ready |->
                        LET b == BurstOf(burst, k)
                        IN  IF k \notin ready THEN b
                            ELSE [b EXCEPT !.fires = @ + 1,
                                           !.early = @ \/ (b.arming # -1 /\ now < b.arming + DebounceMs),
                                           !.early_any = @ \/ (b.joined /\ now < b.last_op + DebounceMs)]]
        /\ UNCHANGED <<now, processing_locks, storeVars, providerVars, cfg, wk, next_wid, local_m3u,
                       lockVars, collapseVars, resolverVars, credVars, queue_deleted, tree>>

\* Time passes.
DebounceTick ==
    /\ now < MaxDebounceClock
    /\ now' = now + 1
    /\ UNCHANGED <<processing_locks, storeVars, providerVars, cfg, wk, next_wid, local_m3u,
                   watcherVars, lockVars, collapseVars, sideVars>>

\* What happens to folder A/B: a track appears in it and leaves it, and
\* the folder is created and removed.
BurstEvents ==
    {s \in SyntheticEvents :
        \/ s.kind \in {"FileCreate", "FileRemove"} /\ s.path = Append(DirAB, "t.mp3")
        \/ s.kind \in {"FolderCreate", "FolderRemove"} /\ s.path = DirAB}
\* A disk with folder A/B, and the whitelists that admit or reject it.
BurstFileSystems == {fs \in FileSystems : DirAB \in fs.dirs}
BurstWhitelists == {<< >>, <<{DirA}>>, <<{DirA, DirAB}>>}

\* run_watcher has scanned the disk; no timer is armed.
InitDebounce ==
    /\ LockInit
    /\ CollapseIdle
    /\ WorkerIdle
    /\ ResolverIdle
    /\ CredsIdle
    /\ QueueWhole
    /\ TimersIdle
    /\ \E fs \in BurstFileSystems, wl \in BurstWhitelists :
        tree = [nodes |-> Build(fs, wl), whitelist |-> wl, count |-> 0, nightly |-> 0,
                ops |-> << >>, enq |-> << >>, dropped |-> FALSE, disk |-> << >>]

NextDebounce ==
    \/ \E s \in BurstEvents : TimedNotify(s)
    \/ DebouncePoll
    \/ DebounceTick
    \/ \E ev \in WatchEvents : EnqueueThread(ev)

\* The debounce thread and the clock keep running.
SpecDebounce ==
    InitDebounce /\ [][NextDebounce]_vars /\ WF_vars(DebouncePoll) /\ WF_vars(DebounceTick)

\* --- C22
\* What holds of the ops that arm the timer of a folder: it does not fire
\* between two of them that are less than debounce_ms apart, it fires not
\* earlier than debounce_ms after the last of them, and it fires exactly
\* once after it.
ArmingBurstFiresOnce ==
    /\ [](\A k \in DOMAIN burst :
            /\ ~burst[k].early
            /\ ~burst[k].split
            /\ burst[k].fires <= 1)
    /\ <>[](\A k \in DOMAIN burst : burst[k].arming # -1 => burst[k].fires = 1)

\* C22: for a burst of logical ops on folder F, each less than debounce_ms
\* after the one before, the debouncer writes F's playlist file and
\* enqueues a Create event for F not earlier than debounce_ms after the
\* last op of the burst: the timer of a folder never fires less than
\* debounce_ms after the latest logical op on the folder.
C22_FiresAfterLastOpOfBurst ==
    \A k \in DOMAIN burst : ~burst[k].early_any

\* --- C23
\* This step is a run of run_nightly_reconcile.
ReconcileStep == tree'.nightly = tree.nightly + 1
\* The rows a step has added to the queue.
Appended == SubSeq(event_queue', Len(event_queue) + 1, Len(event_queue'))
\* The folders of disk fs that whitelist wl admits.
WhitelistedFolders(fs, wl) == {d \in fs.dirs : ~IsSmbTempPath(d) /\ (wl = << >> \/ IsMatch(wl, d))}

\* C23: run_nightly_reconcile enqueues exactly one Create event, keyed by
\* the folder's path relative to the root, for every whitelisted folder of
\* the tree it builds, and for no other folder; when it returns the events
\* are rows of the queue and no thread is left to enqueue one.
C23_ReconcileEnqueuesOnePerFolder ==
    [][ReconcileStep =>
        LET expected == WhitelistedFolders(tree'.disk[1], tree.whitelist)
        IN  /\ Len(event_queue') = Len(event_queue) + Cardinality(expected)
            /\ SubSeq(event_queue', 1, Len(event_queue)) = event_queue
            /\ {Appended[i].playlist_name : i \in 1..Len(Appended)} = {Display[d] : d \in expected}
            /\ \A i \in 1..Len(Appended) : Appended[i].action = "create" /\ ~Appended[i].is_synced
            /\ spawned' = spawned]_vars

\* The reconcile has run on a disk with folders A, A/B and C and a track in
\* C, under a whitelist that admits A and A/B: the queue holds a Create for
\* A and one for A/B and nothing for C or the root.
C23_Witness ==
    /\ tree.nightly = 1
    /\ tree.count = 0
    /\ tree.disk = <<[dirs |-> {RootFolder, DirA, DirAB, DirC}, files |-> {Append(DirC, "t.mp3")}]>>
    /\ tree.whitelist = <<{DirA, DirAB}>>
    /\ Len(event_queue) = 2
    /\ {event_queue[i].playlist_name : i \in 1..2} = {"A", "A/B"}

\* --- C27
\* C27: at the end of a pass whose explicit rename found the playlist
\* missing and recreated it, playlist_map holds the new id under
\* (provider, to) and nothing under (provider, from).
C27_RecreatedRenameMapsNewKey ==
    \A p \in Procs :
        (/\ wk[p].pc = "release"
         /\ wk[p].rename # << >>
         /\ "rename" \in wk[p].recreated_ops)
        => /\ Has(playlist_map, <<ProvOf(wk[p]), wk[p].rename[1]>>)
           /\ playlist_map[<<ProvOf(wk[p]), wk[p].rename[1]>>] = wk[p].remote_id
           /\ ~Has(playlist_map, <<ProvOf(wk[p]), wk[p].key>>)

\* --- C28
\* After playlist_is_valid said false for the mapped id and ensure_playlist
\* returned a new one, the map holds the new id under (provider,
\* playlist_key) when the later calls begin, and every rename, list, add and
\* remove call of the pass is made on the new id.
RevalidatedCallsTargetNewId ==
    \A p \in Procs :
        wk[p].revalidated # << >> =>
            /\ wk[p].targets \subseteq {wk[p].revalidated[1].new}
            /\ wk[p].revalidated[1].old \notin wk[p].targets
            /\ wk[p].targets = {} =>
                /\ Has(playlist_map, <<ProvOf(wk[p]), wk[p].key>>)
                /\ playlist_map[<<ProvOf(wk[p]), wk[p].key>>] = wk[p].revalidated[1].new

\* When the recreation of an invalid playlist failed, the lease is released
\* and the events of the group are unsynced for the rest of the pass.
UnrecreatedStaysUnsynced ==
    \A p \in Procs :
        /\ Unsynced(wk[p].unrecreated)
        /\ (wk[p].unrecreated # {} /\ wk[p].pc = "group") =>
                ~(Has(processing_locks, wk[p].key) /\ processing_locks[wk[p].key].worker_id = wk[p].wid)

\* C28: a recreation after playlist_is_valid said false puts the new id
\* into playlist_map and makes every later rename, list, add and remove call
\* of the pass target the new id and never the old one; a failed recreation
\* releases the lease and leaves the events unsynced.
C28_InvalidPlaylistRecreated ==
    RevalidatedCallsTargetNewId /\ UnrecreatedStaysUnsynced

\* A pass has recreated an invalid playlist and made an add or remove call.
RevalidatedAndApplied ==
    \E p \in Procs :
        /\ wk[p].revalidated # << >>
        /\ wk[p].targets = {wk[p].revalidated[1].new}
        /\ wk[p].calls \cap {"add", "remove"} # {}

\* --- C29
\* Two worker processes that start MaxStarted resolutions between them.
MaxStarted == 2
Started(tasks) == Cardinality({x \in Procs \X (1..MaxResolves) : x[2] <= tasks[x[1]].n})

NextOrder ==
    \/ \E r \in Procs : UriOverride(r) /\ Started(rs') <= MaxStarted
    \/ \E r \in Procs : ReadCache(r) /\ Started(rs') <= MaxStarted
    \/ \E r \in Procs : ExtractIsrc(r)
    \/ \E r \in Procs : SearchByIsrc(r)
    \/ \E r \in Procs : SearchTrackUri(r)

SpecOrder == InitResolve /\ [][NextOrder]_vars

StageRank == [s \in {"uri", "cache", "by_isrc", "search"} |->
                IF s = "uri" THEN 1 ELSE IF s = "cache" THEN 2 ELSE IF s = "by_isrc" THEN 3 ELSE 4]

\* The sources of a resolution were tried in the order uri::, cache, ISRC,
\* search, and none after the one that gave the result.
TriedInOrder(task) ==
    /\ \A i, j \in 1..Len(task.stages) : i < j => StageRank[task.stages[i]] < StageRank[task.stages[j]]
    /\ task.hit # "" => task.pc = "done" /\ task.stages[Len(task.stages)] = task.hit

\* C29: a resolution in the loop over track_ops tries the uri:: override,
\* the track cache, the ISRC lookup and the metadata search in this order
\* and stops at the first success; when it ends with the URI that
\* search_track_uri_by_isrc returned, no metadata search was made for the
\* track and the cache row holds the ISRC asked for and that URI.
C29_ResolutionOrder ==
    [][\A r \in Procs :
        /\ rs'[r].site = "track_ops" => TriedInOrder(rs'[r])
        /\ (rs'[r] # rs[r] /\ rs'[r].site = "track_ops" /\ rs'[r].hit = "by_isrc") =>
            /\ rs'[r].isrc # ""
            /\ "search" \notin Range(rs'[r].stages)
            /\ Has(track_cache', <<rs'[r].prov, rs'[r].t>>)
            /\ track_cache'[<<rs'[r].prov, rs'[r].t>>] = [isrc |-> rs'[r].isrc, remote_uri |-> rs'[r].result[1]]
      ]_vars

\* A resolution of the loop over track_ops has ended with the answer of the
\* ISRC search, after the uri:: test and a cache miss.
C29_Witness ==
    \E r \in Procs :
        /\ rs[r].site = "track_ops"
        /\ rs[r].pc = "done"
        /\ rs[r].hit = "by_isrc"
        /\ rs[r].stages = <<"uri", "cache", "by_isrc">>
        /\ rs[r].isrc = IsrcOf[rs[r].t]

\* --- C30
\* A list cut into consecutive chunks of at most size elements.
ChunksOf(list, size) ==
    [i \in 1..((Len(list) + size - 1) \div size) |->
        SubSeq(list, (i - 1) * size + 1, Min(i * size, Len(list)))]

\* The calls pass the chunks in order from the first one on, a call passing
\* the chunk of the call before it (a retry) or the next chunk.
RECURSIVE Follows(_, _)
Follows(calls, chunks) ==
    IF calls = << >> THEN TRUE
    ELSE /\ chunks # << >>
         /\ Head(calls).uris = Head(chunks)
         /\ Follows(Tail(calls), chunks) \/ Follows(Tail(calls), Tail(chunks))

\* As Follows, and the last call passes the last chunk.
RECURSIVE Covers(_, _)
Covers(calls, chunks) ==
    IF calls = << >> THEN chunks = << >>
    ELSE /\ chunks # << >>
         /\ Head(calls).uris = Head(chunks)
         /\ Covers(Tail(calls), chunks) \/ Covers(Tail(calls), Tail(chunks))

CallsOf(w, op) == SelectSeq(w.applied, LAMBDA c : c.op = op)

\* C30: in one pass for a (playlist, provider) every remove_tracks call
\* comes before every add_tracks call; the calls of each kind pass the
\* chunks of at most max_batch_size URIs of the remove list and of the add
\* list in order (a retried call passes its chunk again), and when
\* apply_in_batches has returned Ok every chunk has been passed.
C30_RemovesThenAddsInChunks ==
    \A p \in Solo :
        wk[p].applied # << >> =>
            LET w == wk[p]
                size == cfg.max_batch_size_spotify
                removes == CallsOf(w, "remove")
                adds == CallsOf(w, "add")
                remove_chunks == ChunksOf(w.remove_uris, size)
                add_chunks == ChunksOf(w.add_uris, size)
            IN  /\ w.applied = removes \o adds
                /\ Follows(removes, remove_chunks)
                /\ Follows(adds, add_chunks)
                /\ \A i \in 1..Len(w.applied) : Len(w.applied[i].uris) \in 1..size
                /\ w.pc = "mark" =>
                    /\ "remove" \notin w.aborted => Covers(removes, remove_chunks)
                    /\ "add" \notin w.aborted => Covers(adds, add_chunks)

\* A pass has made a remove call and then more than one add call, one chunk
\* after the other, and apply_in_batches has returned.
C30_Witness ==
    \E p \in Procs :
        /\ wk[p].pc = "mark"
        /\ wk[p].aborted = {}
        /\ Len(CallsOf(wk[p], "remove")) >= 1
        /\ Len(wk[p].add_uris) > cfg.max_batch_size_spotify
        /\ Len(CallsOf(wk[p], "add")) >= 2

\* --- C31
\* The Create, Delete and Rename events of a list, in the order of the list.
Preserved(evs) == SelectSeq(evs, LAMBDA ev : ev.action \in {"create", "delete", "rename"})

\* C31: the result of collapse_events is the Create, Delete and Rename
\* events of the input in their original order, followed by Add and Remove
\* events only, at most one per track path.
C31_PreservedThenTrackEvents ==
    cout # << >> =>
        LET out == cout[1]
            n == Len(Preserved(cin))
        IN  /\ Len(out) >= n
            /\ SubSeq(out, 1, n) = Preserved(cin)
            /\ \A i \in (n + 1)..Len(out) :
                /\ out[i].action \in {"add", "remove"}
                /\ out[i].track_path # None
                /\ \A j \in (n + 1)..Len(out) : out[j].track_path = out[i].track_path => j = i

\* A batch whose track event came first and whose two preserved events
\* differ has been collapsed into the preserved events and the track event.
C31_Witness ==
    /\ cout # << >>
    /\ Len(cin) = 3
    /\ cin[1].action \in TrackActions
    /\ cin[2].action \in OtherActions
    /\ cin[3].action \in OtherActions
    /\ cin[2].action # cin[3].action
    /\ Len(cout[1]) = 3

\* --- C32
\* C32: after the tree has applied the removal of folder p it has no node
\* for p nor for a folder below p.
C32_RemovedFolderLeavesNoNode ==
    (tree.ops # << >> /\ tree.ops[1].op = "Delete") =>
        \A n \in DOMAIN tree.nodes : ~StartsWith(n, tree.ops[1].playlist_folder)

\* ========================================================== ensure_token
\* One provider object shared by several tasks. ensure_token takes the
\* token mutex, holds it across the refresh request and gives it back on
\* return, so no task looks at the cached token while another refreshes it.
MaxTasks == 2
MaxTokenClock == 2
RefreshWindow == 30
Tasks == 1..MaxTasks
\* expires_in of the token response (3600 when the field is missing).
ExpiresIn == {30, 3600}
\* expires_at of the stored token at start-up.
StoredExpiry == {0, 3600}

tokenFrame == <<processing_locks, storeVars, providerVars, cfg, wk, next_wid, local_m3u,
                watcherVars, lease, last_lock_call, collapseVars, resolverVars, queue_deleted,
                tree, timerVars, credentials, clients, last_refresh, token, last_bearer>>

\* Every cached token is refreshed, however far from expiry.
NearExpiryAlways(st, t) == TRUE

\* `if now + 30 >= st.expires_at`
NearExpiry(st, t) == t + RefreshWindow >= st.expires_at

\* What refresh_token_internal leaves in the clone cur: the new token on a
\* success answer with an access_token, cur untouched otherwise.
RefreshedClone(cur, answer, expires_in, t) ==
    IF answer = "ok"
    THEN [access_token |-> cur.access_token + 1, expires_at |-> t + expires_in]
    ELSE cur

\* A task calls ensure_token and waits for the token mutex.
EnsureTokenCall(t) ==
    /\ ensure.pc[t] = "idle"
    /\ ensure' = [ensure EXCEPT !.pc[t] = "wait",
                                !.concurrent = @ /\ \A u \in Tasks : ensure.pc[u] \in {"idle", "wait"}]
    /\ UNCHANGED <<now, tokenFrame>>

\* self.token.lock().await succeeds: an empty cache is filled from the
\* credentials row; a token within 30 s of expiry makes the task send the
\* refresh request (the mutex stays held), any other returns Ok at once.
EnsureTokenLocked(t) ==
    /\ ensure.pc[t] = "wait"
    /\ ensure.holder = 0
    /\ LET loaded == IF ensure.cache = << >> THEN ensure.row ELSE ensure.cache
       IN  IF loaded # << >> /\ NearExpiry(loaded[1], now)
           THEN ensure' = [ensure EXCEPT !.cache = loaded, !.holder = t, !.pc[t] = "refresh",
                                         !.sent[t] = <<now>>]
           ELSE ensure' = [ensure EXCEPT !.cache = loaded, !.pc[t] = "done",
                                         !.got[t] = loaded]
    /\ UNCHANGED <<now, tokenFrame>>

\* The token endpoint answers. Ok: the clone replaces the cached token and
\* the credentials row. Err: Spotify's ensure_token returns the error,
\* Tidal's logs it and returns Ok; the cache is left alone. The guard drops.
EnsureTokenRefreshed(t, answer, expires_in) ==
    /\ ensure.pc[t] = "refresh"
    /\ LET cur == RefreshedClone(ensure.cache[1], answer, expires_in, now)
           ok == answer = "ok"
       IN  ensure' = [ensure EXCEPT
                !.cache = IF ok THEN <<cur>> ELSE @,
                !.row = IF ok THEN <<cur>> ELSE @,
                !.holder = 0,
                !.pc[t] = "done",
                !.got[t] = IF ok THEN <<cur>> ELSE IF ensure.prov = "tidal" THEN ensure.cache ELSE << >>,
                !.log = Append(@, [task |-> t, at |-> ensure.sent[t][1], ok |-> ok, cache |-> cur])]
    /\ UNCHANGED <<now, tokenFrame>>

TokenTick ==
    /\ now < MaxTokenClock * RefreshWindow
    /\ now' = now + RefreshWindow
    /\ UNCHANGED <<ensure, tokenFrame>>

InitToken ==
    /\ LockInit
    /\ CollapseIdle
    /\ WorkerIdle
    /\ ResolverIdle
    /\ QueueWhole
    /\ TreeIdle
    /\ TimersIdle
    /\ credentials = EmptyMap
    /\ clients = EmptyMap
    /\ last_refresh = << >>
    /\ token = EmptyMap
    /\ last_bearer = << >>
    /\ \E prov \in Providers, row \in {<< >>} \cup {<<[access_token |-> 0, expires_at |-> e]>> : e \in StoredExpiry} :
        ensure = [prov |-> prov, holder |-> 0, cache |-> << >>, row |-> row,
                  pc |-> [t \in Tasks |-> "idle"], sent |-> [t \in Tasks |-> << >>],
                  got |-> [t \in Tasks |-> << >>], log |-> << >>, concurrent |-> TRUE]

NextToken ==
    \/ \E t \in Tasks : EnsureTokenCall(t)
    \/ \E t \in Tasks : EnsureTokenLocked(t)
    \/ \E t \in Tasks, answer \in TokenAnswers, expires_in \in ExpiresIn : EnsureTokenRefreshed(t, answer, expires_in)
    \/ TokenTick

SpecToken == InitToken /\ [][NextToken]_vars

\* Every task called ensure_token before any of them got the mutex, all
\* have returned, and the cached token was within 30 s of expiry.
BurstOver ==
    /\ ensure.concurrent
    /\ \A t \in Tasks : ensure.pc[t] = "done"
    /\ ensure.log # << >>

\* --- C33
\* C33 as stated: concurrent calls on a token within 30 s of expiry send
\* exactly one refresh request; the other tasks return with the refreshed
\* token and send none.
C33_ExactlyOneRefresh ==
    BurstOver =>
        /\ Len(ensure.log) = 1
        /\ \A t \in Tasks : ensure.sent[t] = << >> => ensure.got[t] = <<ensure.log[1].cache>>

\* C33: the refresh requests of concurrent calls are sent one at a time by
\* the holder of the token mutex; a task sends one only when no earlier
\* request has succeeded with a token that is more than 30 s from expiry,
\* and a task that sends none returns with the token of the latest
\* successful request.
C33_OneRefreshUntilSuccess ==
    /\ Cardinality({t \in Tasks : ensure.pc[t] = "refresh"}) <= 1
    /\ \A i \in 1..Len(ensure.log) : \A j \in 1..Len(ensure.log) :
            i < j => ~ensure.log[i].ok \/ ensure.log[j].at + RefreshWindow >= ensure.log[i].cache.expires_at
    /\ \A t \in Tasks :
            (ensure.pc[t] = "done" /\ ensure.sent[t] = << >> /\ ensure.log # << >>) =>
                \E i \in 1..Len(ensure.log) : ensure.log[i].ok /\ ensure.got[t] = <<ensure.log[i].cache>>

\* Two concurrent calls, one request: it succeeded and the other task
\* returned with the refreshed token without asking.
C33_Witness ==
    /\ BurstOver
    /\ Len(ensure.log) = 1
    /\ ensure.log[1].ok
    /\ \E t \in Tasks : ensure.sent[t] = << >> /\ ensure.got[t] = <<ensure.log[1].cache>>

\* ================================================ compute_remote_playlist_name
\* Strings are sequences of characters; a template is a sequence of literal
\* characters and placeholders. No character of the inputs is "$", so the
\* three str::replace passes of expand_template meet each placeholder once.
FolderNameHole == "${folder_name}"
PathToParentHole == "${path_to_parent}"
RelativePathHole == "${relative_path}"

\* str::replace(ch, rep)
RECURSIVE Replace(_, _, _)
Replace(s, ch, rep) ==
    IF s = << >> THEN << >>
    ELSE (IF Head(s) = ch THEN rep ELSE <<Head(s)>>) \o Replace(Tail(s), ch, rep)

RECURSIVE TrimStart(_, _)
TrimStart(s, chs) == IF s # << >> /\ Head(s) \in chs THEN TrimStart(Tail(s), chs) ELSE s

RECURSIVE TrimEnd(_, _)
TrimEnd(s, chs) ==
    IF s # << >> /\ s[Len(s)] \in chs THEN TrimEnd(SubSeq(s, 1, Len(s) - 1), chs) ELSE s

\* str::trim_matches(ch), and str::trim for chs = the white space.
TrimMatches(s, chs) == TrimEnd(TrimStart(s, chs), chs)

\* str::rsplit_once(ch): << >> for None, else <<before, after>> the last ch.
RSplitOnce(s, ch) ==
    LET at == {i \in 1..Len(s) : s[i] = ch}
    IN  IF at = {} THEN << >>
        ELSE LET i == CHOOSE k \in at : \A j \in at : j <= k
             IN  <<SubSeq(s, 1, i - 1), SubSeq(s, i + 1, Len(s))>>

\* util::expand_template
RECURSIVE ExpandTemplate(_, _, _)
ExpandTemplate(template, folder_name, path_to_parent) ==
    IF template = << >> THEN << >>
    ELSE (IF Head(template) = FolderNameHole THEN folder_name
          ELSE IF Head(template) = PathToParentHole THEN path_to_parent
          ELSE IF Head(template) = RelativePathHole THEN path_to_parent \o folder_name
          ELSE <<Head(template)>>)
         \o ExpandTemplate(Tail(template), folder_name, path_to_parent)

ProviderSupportsFolderNesting(provider_name) == provider_name # "tidal"

\* compute_remote_playlist_name, character by character.
RemotePlaylistNameText(c, provider_name, playlist_key) ==
    LET root == TrimMatches(c.online_root_playlist, {" "})
        delim_cfg == c.online_folder_flattening_delimiter
        normalized == TrimMatches(Replace(playlist_key, "\\", <<"/">>), {"/"})
        split == RSplitOnce(normalized, "/")
        parent_rel == IF split = << >> THEN << >> ELSE split[1]
        folder_name == IF split = << >> THEN normalized ELSE split[2]
        path_to_parent_fs ==
            (IF root # << >> THEN root \o <<"/">> ELSE << >>)
            \o (IF parent_rel # << >> THEN parent_rel \o <<"/">> ELSE << >>)
        is_folder_style ==
            c.online_playlist_structure = "folders" /\ ProviderSupportsFolderNesting(provider_name)
        template ==
            IF is_folder_style
            THEN (IF c.remote_playlist_template_folders # << >>
                  THEN c.remote_playlist_template_folders ELSE c.remote_playlist_template)
            ELSE (IF c.remote_playlist_template_flat # << >>
                  THEN c.remote_playlist_template_flat ELSE c.remote_playlist_template)
        path_to_parent ==
            IF ~is_folder_style /\ delim_cfg # << >>
            THEN (IF path_to_parent_fs = << >> THEN << >> ELSE Replace(path_to_parent_fs, "/", delim_cfg))
            ELSE path_to_parent_fs
    IN  IF template = << >>
        THEN (IF root # << >>
              THEN (IF normalized = << >> THEN root ELSE root \o <<"/">> \o normalized)
              ELSE normalized)
        ELSE ExpandTemplate(template, folder_name, path_to_parent)

NameKeys == {<<"A">>, <<"A", "/", "B">>, <<"/", "A", "\\", "B", "/">>}
NameRoots == {<< >>, <<" ", "R">>, <<"R", "/", "S">>}
NameDelims == {<< >>, <<"|">>, <<" ", "-", " ">>}
NameStructures == {"flat", "folders", "nested"}
NameConfigs ==
    [online_root_playlist : NameRoots,
     online_playlist_structure : NameStructures,
     online_folder_flattening_delimiter : NameDelims,
     remote_playlist_template : {<< >>, <<RelativePathHole>>},
     remote_playlist_template_flat : {<< >>, <<"f", PathToParentHole, FolderNameHole>>},
     remote_playlist_template_folders : {<< >>, <<"d", PathToParentHole, FolderNameHole>>}]

InitName ==
    /\ LockInit
    /\ WorkerIdle
    /\ SideIdle
    /\ cin = << >>
    /\ cset = {}
    /\ cout = << >>
    /\ fncall \in {<<[cfg |-> c, provider_name |-> prov, playlist_key |-> k, name |-> << >>]>> :
                    c \in NameConfigs, prov \in Providers, k \in NameKeys}

\* The worker computes the display name of the playlist on the provider.
ComputeName ==
    /\ fncall[1].name = << >>
    /\ fncall' = <<[fncall[1] EXCEPT !.name =
                    <<RemotePlaylistNameText(fncall[1].cfg, fncall[1].provider_name, fncall[1].playlist_key)>>]>>
    /\ UNCHANGED <<cin, cset, cout, now, processing_locks, lockVars, storeVars, providerVars, workerVars>>

NextName == ComputeName

SpecName == InitName /\ [][NextName]_vars

Named == fncall # << >> /\ fncall[1].name # << >>

WithStructure(c, structure) == [c EXCEPT !.online_playlist_structure = structure]

\* The name is the folders-style name exactly when the structure is
\* "folders" and the provider nests folders, and the flat-style name
\* otherwise (a provider that nests folders, Spotify, gives both).
FoldersStyleIff ==
    Named =>
        fncall[1].name[1] =
            IF fncall[1].cfg.online_playlist_structure = "folders" /\ fncall[1].provider_name # "tidal"
            THEN RemotePlaylistNameText(WithStructure(fncall[1].cfg, "folders"), "spotify", fncall[1].playlist_key)
            ELSE RemotePlaylistNameText(WithStructure(fncall[1].cfg, "flat"), "spotify", fncall[1].playlist_key)

\* The Tidal name is the flat-mode name whatever the structure says.
TidalNameIsFlat ==
    (Named /\ fncall[1].provider_name = "tidal") =>
        fncall[1].name[1] = RemotePlaylistNameText(WithStructure(fncall[1].cfg, "flat"), "tidal", fncall[1].playlist_key)

\* In flat style with a delimiter no "/" of the path to the parent is left
\* in the name (no template and no delimiter of the inputs holds a "/").
FlatReplacesSeparators ==
    (/\ Named
     /\ ~(fncall[1].cfg.online_playlist_structure = "folders" /\ fncall[1].provider_name # "tidal")
     /\ fncall[1].cfg.online_folder_flattening_delimiter # << >>)
        => "/" \notin Range(fncall[1].name[1])

\* A flat-style name made with a template and a delimiter from a key two
\* folders deep under a root.
FlattenedWithTemplate ==
    /\ Named
    /\ fncall[1].provider_name = "tidal"
    /\ fncall[1].cfg.online_playlist_structure = "folders"
    /\ fncall[1].cfg.online_folder_flattening_delimiter = <<"|">>
    /\ fncall[1].cfg.online_root_playlist = <<"R", "/", "S">>
    /\ fncall[1].name[1] = <<"f", "R", "|", "S", "|", "A", "|", "B">>

\* --- C34
\* C34: the name is in folders style iff the structure is "folders" and the
\* provider supports folder nesting; the Tidal name is the flat-mode name
\* for every configuration; in flat style with a non-empty delimiter every
\* "/" of the path to the parent is replaced by the delimiter.
C34_RemoteNameStyle ==
    /\ FoldersStyleIff
    /\ TidalNameIsFlat
    /\ FlatReplacesSeparators

\* --- C35
\* C35: the events of a playlist are marked synced in a pass only if every
\* provider's reconciliation of the playlist reached its end in that pass:
\* when a provider iteration was left because ensure_playlist failed or the
\* lease was refused, the events of the group are unsynced when the pass
\* returns.
C35_SkippedProviderKeepsEventsUnsynced ==
    \A p \in Procs :
        (wk[p].pc = "group" /\ NextTargets(wk[p]) = {}) => Unsynced(wk[p].skipped)

\* ======================================================= store failures
\* The pcs at which the next statement is a store call whose error
\* run_worker_once hands to its caller with `.await??`: delete_playlist_map
\* and mark_events_synced.
StorePcs == {"delmap", "mark"}

\* The store call fails (database locked, disk full): run_worker_once
\* returns the error from where it stands.
StoreFails(p) ==
    /\ wk[p].pc \in StorePcs
    /\ wk' = [wk EXCEPT ![p] = [IdleLocals EXCEPT !.passes = wk[p].passes, !.stopped_at = "store_error"]]
    /\ UNCHANGED <<now, processing_locks, storeVars, providerVars, cfg, next_wid, local_m3u, offstageVars>>

InitStore == Init /\ cfg.providers = <<"spotify">>

NextStore ==
    \/ Next
    \/ \E p \in Solo : StoreFails(p)

SpecStore == InitStore /\ [][NextStore]_vars

\* run_worker_once of process p returns in this step, with Ok or with Err.
Returns(p) ==
    /\ wk[p].pc \notin {"idle", "stopped"}
    /\ wk'[p].pc = "idle"

\* --- C36
\* C36: when run_worker_once returns, with Ok or with an error, no row of
\* processing_locks carries the worker id of that pass.
C36_NoLeaseLeftOnReturn ==
    [][\A p \in Procs : Returns(p) =>
            \A k \in DOMAIN processing_locks' : processing_locks'[k].worker_id # wk[p].wid]_vars

\* ======================================================= folder removal
\* The watcher and successive worker passes around the removal of the
\* mapped top-level folder A: its files go first (rm -r), then the folder.
RemovedTracks(k) ==
    {ev.track_path : ev \in {e \in spawned \cup Range(event_queue) :
                                e.playlist_name = k /\ e.action = "remove"}}

\* LogicalOp::Remove: a file of folder k is gone. The timers of k and of its
\* ancestors are armed and a thread is spawned to enqueue the Remove event.
IngestTrackRemove(k, t) ==
    /\ Has(local_m3u, k)
    /\ t \in Range(local_m3u[k]) \ RemovedTracks(k)
    /\ debounce_map' = debounce_map \cup {k} \cup Ancestors(k)
    /\ spawned' = spawned \cup {QueueEvent(k, "remove", t, "", 0)}
    /\ UNCHANGED <<now, processing_locks, storeVars, providerVars, cfg, wk, next_wid, local_m3u, harnessVars>>

\* LogicalOp::Delete: folder k is gone. Only the timers of its ancestors are
\* armed, a timer already armed for k stays in the map, and a thread is
\* spawned to enqueue the Delete event.
IngestFolderRemove(k) ==
    /\ Has(local_m3u, k)
    /\ local_m3u' = Del(local_m3u, k)
    /\ debounce_map' = debounce_map \cup Ancestors(k)
    /\ spawned' = spawned \cup {QueueEvent(k, "delete", None, "", 0)}
    /\ UNCHANGED <<now, processing_locks, storeVars, providerVars, cfg, wk, next_wid, harnessVars>>

\* One round of the debounce thread: each due folder leaves the map, its
\* playlist file is written from the files it holds now (the write fails
\* for a folder that is gone) and a thread is spawned to enqueue a Create
\* event under its key, whether or not the write worked.
DebounceWrite(due) ==
    /\ due # {}
    /\ due \subseteq debounce_map
    /\ debounce_map' = debounce_map \ due
    /\ local_m3u' = [k \in DOMAIN local_m3u |->
                        IF k \in due
                        THEN SelectSeq(local_m3u[k], LAMBDA t : t \notin RemovedTracks(k))
                        ELSE local_m3u[k]]
    /\ spawned' = spawned \cup {QueueEvent(k, "create", None, "", 0) : k \in due}
    /\ UNCHANGED <<now, processing_locks, storeVars, providerVars, cfg, wk, next_wid, harnessVars>>

\* The passes run one after the other, each with a worker id of its own.
NextPass(p) ==
    /\ \A q \in Procs \ {p} : wk[q].pc \in {"idle", "stopped"}
    /\ p = "p2" => wk["p1"].passes = MaxPasses
    /\ FetchEvents(p)

RemovalEvents ==
    {QueueEvent(KeyParent, a, None, "", 0) : a \in {"create", "delete"}}
    \cup {QueueEvent(KeyParent, "remove", t, "", 0) : t \in Tracks}

\* Folder A is mapped and in sync on one provider whose calls succeed; the
\* queue is empty and no timer is armed.
InitRemoval ==
    /\ now = 0
    /\ processing_locks = EmptyMap
    /\ track_cache = EmptyMap
    /\ user_deletes = MaxUserDeletes
    /\ faults = MaxFaults
    /\ next_remote_id = FirstFreshId
    /\ next_wid = 1
    /\ wk = [p \in Procs |-> IdleLocals]
    /\ cfg \in [providers : {<<"spotify">>, <<"tidal">>},
                online_root_playlist : {""},
                catalog : {Tracks},
                max_retries_on_error : {MaxRetriesOnError},
                max_batch_size_spotify : {MaxBatchSize},
                queue_threshold : {<< >>}]
    /\ event_queue = << >>
    /\ local_m3u \in {(KeyParent :> lines) : lines \in {<< >>, <<"t1">>}}
    /\ remote = [prov \in Range(cfg.providers) |->
                    (1 :> [name |-> [root |-> "", key |-> KeyParent], tracks |-> DesiredSet(prov, KeyParent)])]
    /\ playlist_map = [k \in {<<cfg.providers[1], KeyParent>>} |-> 1]
    /\ WatcherIdle
    /\ LockHarnessIdle
    /\ CollapseIdle
    /\ SideIdle

NextRemoval ==
    \/ \E t \in Tracks : IngestTrackRemove(KeyParent, t)
    \/ IngestFolderRemove(KeyParent)
    \/ DebounceWrite({KeyParent})
    \/ \E ev \in RemovalEvents : EnqueueThread(ev)
    \/ \E p \in Procs : NextPass(p)
    \/ \E p \in Procs : Acquire(p)
    \/ \E p \in Procs : EndPass(p)
    \/ \E p \in Procs : DeleteRemote(p)
    \/ \E p \in Procs : DeleteMap(p)
    \/ \E p \in Procs : ComputeDesired(p)
    \/ \E p \in Procs : EnsurePlaylist(p)
    \/ \E p \in Procs : Validate(p)
    \/ \E p \in Procs : BuildLists(p)
    \/ \E p \in Procs : ApplyCall(p)
    \/ \E p \in Procs : MarkSynced(p)
    \/ \E p \in Procs : ReleaseLock(p)

SpecRemoval == InitRemoval /\ [][NextRemoval]_vars

\* A pass has handled the Delete event of folder k.
DeleteProcessed(k) ==
    \E i \in 1..Len(event_queue) :
        /\ event_queue[i].playlist_name = k
        /\ event_queue[i].action = "delete"
        /\ event_queue[i].is_synced

\* --- C37
\* C37: once the Delete event of the removed folder has been processed, no
\* pass calls ensure_playlist for the folder and playlist_map holds no
\* entry for it (the folder is never created again here).
C37_RemovedFolderStaysUnmapped ==
    DeleteProcessed(KeyParent) =>
        /\ \A prov \in Range(cfg.providers) : ~Has(playlist_map, <<prov, KeyParent>>)
        /\ \A p \in Procs : wk[p].key = KeyParent => "ensure" \notin wk[p].calls

\* --- C38
\* C38: a track_cache row that holds a remote URI keeps holding one, in
\* every interleaving of the workers that resolve the track.
C38_CachedUriNeverErased ==
    [][\A k \in DOMAIN track_cache :
            track_cache[k].remote_uri # "" =>
                (k \in DOMAIN track_cache' /\ track_cache'[k].remote_uri # "")]_vars

\* --- C39
\* C39: when the remote playlist holds exactly the tracks the local
\* playlist resolves to and the batch has no track event, the lists built
\* for add_tracks and remove_tracks are empty, on every provider.
C39_InSyncPlaylistGetsNoCalls ==
    [][\A p \in Procs :
        (/\ wk[p].pc = "list"
         /\ wk'[p].pc # "list"
         /\ wk[p].track_ops = << >>
         /\ wk[p].desired # << >>
         /\ PlaylistExists(ProvOf(wk[p]), wk[p].remote_id)
         /\ remote[ProvOf(wk[p])][wk[p].remote_id].tracks = Range(wk[p].desired[1]))
        => (wk'[p].add_uris = << >> /\ wk'[p].remove_uris = << >>)]_vars

\* ===================== Watcher: notifications about files of other types
\* A cover image next to the tracks, before and after it is moved.
CoverInC == Append(DirC, "c.jpg")
CoverInAB == Append(DirAB, "c.jpg")
ExtFiles == WatchFiles \cup {CoverInC, CoverInAB}

\* The notifications about files: one path for a file that appeared,
\* changed or went away, two paths for a file that was moved.
ExtNotifications ==
    {[kind |-> k, paths |-> <<p>>, is_file |-> TRUE, is_dir |-> FALSE, remove_kind |-> "Other"] :
        k \in {"Create", "Modify"}, p \in ExtFiles}
    \cup {[kind |-> "Remove", paths |-> <<p>>, is_file |-> FALSE, is_dir |-> FALSE, remove_kind |-> "File"] :
            p \in ExtFiles}
    \cup {[kind |-> "Modify", paths |-> pq, is_file |-> FALSE, is_dir |-> FALSE, remove_kind |-> "Other"] :
            pq \in {<<CoverInC, CoverInAB>>, <<Append(DirC, "t.mp3"), Append(DirAB, "t.mp3")>>}}

ExtEvents ==
    {QueueEvent(k, a, Display[f], "", 0) : k \in WatchKeys, a \in TrackActions, f \in ExtFiles}
    \cup {QueueEvent(k, "create", None, "", 0) : k \in WatchKeys}

\* run_watcher has scanned a disk with tracks and a cover image; the scan
\* keeps the media files only.
InitExt ==
    /\ LockInit
    /\ CollapseIdle
    /\ WorkerIdle
    /\ ResolverIdle
    /\ CredsIdle
    /\ QueueWhole
    /\ TimersIdle
    /\ \E fs \in {[dirs |-> f.dirs, files |-> f.files \cup {CoverInC}] : f \in FileSystems},
          wl \in {<< >>, <<{DirA, DirAB}>>} :
        tree = [nodes |-> Build(fs, wl), whitelist |-> wl, count |-> 0, nightly |-> 0,
                ops |-> << >>, enq |-> << >>, dropped |-> FALSE, disk |-> << >>]

NextExt ==
    \/ \E ev \in ExtNotifications : OnNotifyEvent(ev)
    \/ \E due \in SUBSET WatchKeys : DebounceFire(due)
    \/ \E ev \in ExtEvents : EnqueueThread(ev)

SpecExt == InitExt /\ [][NextExt]_vars

\* --- C40
\* The track paths path_matches_extensions accepts.
MediaPaths == {Display[f] : f \in {g \in DOMAIN Display : PathMatchesExtensions(g)}}

\* C40: whatever notifications arrive, with one path or with two, every add
\* or remove event in the queue or on its way to it names a track path
\* whose extension matches file_extensions.
C40_TrackEventsMatchExtensions ==
    /\ \A i \in 1..Len(event_queue) :
        event_queue[i].action \in TrackActions => event_queue[i].track_path \in MediaPaths
    /\ \A e \in spawned : e.action \in TrackActions => e.track_path \in MediaPaths

====
